---- MODULE Spec2Model ----
(***************************************************************************)
(* Client-side state machine of the Document Q&A React frontend:           *)
(*   - the document registry of AdminDashboard.jsx (uploadedFiles) and the *)
(*     active document it publishes to App.jsx;                            *)
(*   - the chat session manager of ChatInterface.jsx.                      *)
(* Every awaited backend call is a request in flight: the handler's code   *)
(* before the await is one action, the code after it another, and the      *)
(* continuation works on the values its closure captured at call time.     *)
(***************************************************************************)
EXTENDS Bags, FiniteSets, Integers, Sequences, TLC

VARIABLES
    \* App.jsx
    currentView,      \* "chat" | "admin"
    activeDocument,   \* Null, Undefined or a registry entry
    chatSessions,     \* sequence of sessions
    activeSessionId,  \* Null or a session id
    \* AdminDashboard.jsx
    uploadedFiles,    \* sequence of registry entries
    filesGen,         \* which array of entry objects uploadedFiles is
    publishedRef,     \* which entry object activeDocument is, if any
    adminReqs,        \* bag of registry requests awaiting their response
    uploadProgress,   \* map from file name to progress entry
    monitors,         \* the polling loops started by monitorProcessing
    graceTimers,      \* bag of pending removals of a progress entry
    \* ChatInterface.jsx
    messages, inputMessage, loading, hasDocument,
    chatReqs,         \* bag of chat requests awaiting their response
    \* App.jsx, api-service.js and the browser: the user's session
    user,             \* Null or the authenticated identity
    isLoading,        \* TRUE until the session check at startup is over
    localStorage,     \* map from key to stored string
    token,            \* apiService.token
    authReqs,         \* bag of login and logout requests awaiting their response
    loginLoading,     \* Login's loading
    loginError,       \* Login's error
    \* DemoModeContext and AdminDashboard.jsx: demo mode
    isDemoMode,       \* the provider's isDemoMode
    demoIngested,     \* AdminDashboard's demoIngested
    demoIngestState,  \* the status of AdminDashboard's demoIngestState
    demoTimers,       \* bag of pending setTimeout(pollStatuses, 2000)
    \* environment
    clock,            \* the last reading of Date.now()
    notice            \* what the last handler run surfaced to the user

appVars   == <<currentView, activeDocument, chatSessions, activeSessionId>>
adminVars == <<uploadedFiles, adminReqs>>
chatVars  == <<messages, inputMessage, loading, hasDocument, chatReqs>>
uploadVars == <<uploadProgress, monitors, graceTimers>>
authVars  == <<user, isLoading, localStorage, token,
               authReqs, loginLoading, loginError>>
demoVars  == <<isDemoMode, demoIngested, demoIngestState, demoTimers>>
refVars   == <<filesGen, publishedRef>>
vars == <<currentView, activeDocument, chatSessions, activeSessionId,
          uploadedFiles, adminReqs,
          messages, inputMessage, loading, hasDocument, chatReqs,
          clock, notice, uploadProgress, monitors, graceTimers,
          user, isLoading, localStorage, token,
          authReqs, loginLoading, loginError,
          isDemoMode, demoIngested, demoIngestState, demoTimers,
          filesGen, publishedRef>>

----------------------------------------------------------------------------
(* Bounds of the model                                                     *)

MaxDocs == 2          \* longest document list the backend returns
MaxAdminReqs == 2     \* registry requests in flight at once
MaxTextLen == 1       \* longest run of blanks typed
MaxMsgs == 3          \* longest message list
MaxSessions == 2      \* sessions created by New Chat
MaxClock == 2         \* last millisecond the clock reaches
MaxChatReqs == 2      \* chat requests in flight at once
MaxUploads == 1       \* uploads accepted by one admin view
MaxAuthReqs == 1      \* login and logout requests in flight at once
MaxPresets == 1       \* preset buttons that are clicked, of the four

----------------------------------------------------------------------------
(* Values                                                                  *)

\* What a handler run surfaces: nothing, the text of a window.alert, a
\* silent early return, or an uncaught error.
None == "none"
SendReturned == "handleSendMessage: return"
SendAlert == "Please upload and select a document in Admin section to start."
SendTypeError == "TypeError: messageToSend.trim is not a function"
ClearReturned == "handleClearAllChats: return"
ClearAlert == "Failed to clear chat history. Please try again."
NoIdAlert == "Document ID undefined, cannot set active document."
SetActiveAlert == "Failed to update active document."
ToggleAlert == "Failed to update ingested status."

Null == [kind |-> "null"]
Undefined == [kind |-> "undefined"]
\* The empty string, as a value stored or held.
EmptyText == [text |-> ""]
\* What a condition takes for true, of the values tested here: not null,
\* not undefined, not the empty string.
Truthy(v) == v # Null /\ v # Undefined /\ v # EmptyText

\* The names and ids the entries of a backend list carry, by position; a
\* field the backend leaves out is the empty string, which is falsy as
\* undefined is. The first document has no id of its own.
BackendEntries ==
    << [filename |-> "a.pdf", id |-> "", task_id |-> "t-a"],
       [filename |-> "b.pdf", id |-> "id-b", task_id |-> "t-b"],
       [filename |-> "c.pdf", id |-> "id-c", task_id |-> ""],
       [filename |-> "d.pdf", id |-> "id-d", task_id |-> ""] >>

\* The k-th document of a backend list, completed or processing. The first
\* document comes without task_id while it is processing; the second may
\* also come as an entry that has no name either.
BackendDocs(k) ==
    { [filename |-> BackendEntries[k].filename,
       id |-> BackendEntries[k].id,
       task_id |-> IF k = 1 /\ s = "processing" THEN ""
                   ELSE BackendEntries[k].task_id,
       processing_status |-> s] : s \in {"completed", "processing"} }
    \cup (IF k = 2
          THEN { [filename |-> "", id |-> "", task_id |-> "",
                  processing_status |-> "processing"] }
          ELSE {})

RECURSIVE DocLists(_)
DocLists(n) ==
    IF n = 0 THEN {<<>>}
    ELSE LET shorter == DocLists(n - 1)
         IN  shorter \cup
             { Append(l, d) : l \in {x \in shorter : Len(x) = n - 1},
                              d \in BackendDocs(n) }

BackendLists == DocLists(MaxDocs)

\* Texts are sequences of characters.
Chars == {" "}

\* The preset queries, in the order of their buttons; texts are sequences of
\* characters.
PresetQueries ==
    << <<"W", "h", "a", "t", " ", "a", "r", "e", " ", "t", "h", "e",
         " ", "2", "0", "2", "4", " ", "s", "a", "l", "e", "s", " ",
         "f", "i", "g", "u", "r", "e", "s", "?">>,
       <<"W", "h", "i", "c", "h", " ", "r", "e", "g", "i", "o", "n",
         " ", "h", "a", "s", " ", "t", "h", "e", " ", "h", "i", "g",
         "h", "e", "s", "t", " ", "s", "a", "l", "e", "s", "?">>,
       <<"D", "e", "s", "c", "r", "i", "b", "e", " ", "t", "h", "e",
         " ", "b", "a", "r", " ", "c", "h", "a", "r", "t", " ", "i",
         "n", " ", "t", "h", "e", " ", "d", "o", "c", "u", "m", "e",
         "n", "t", ".">>,
       <<"S", "o", "r", "t", " ", "t", "h", "e", " ", "c", "o", "n",
         "t", "i", "n", "e", "n", "t", "s", " ", "i", "n", " ", "a",
         "s", "c", "e", "n", "d", "i", "n", "g", " ", "o", "r", "d",
         "e", "r", ".">> >>
\* The white space and line terminators String.prototype.trim strips. A
\* character of a text is a string: an ASCII character stands for itself, and
\* a character outside ASCII is written by its code point, "U+00A0", since
\* the strings of a module tell ASCII characters apart and no others. The
\* set is WhiteSpace (tab, vertical tab, form feed, U+FEFF and the space
\* separators U+0020, U+00A0, U+1680, U+2000 to U+200A, U+202F, U+205F,
\* U+3000) and LineTerminator (line feed, carriage return, U+2028, U+2029);
\* U+0085, U+180E and U+200B are not in it.
Whitespace ==
    {" ", "\t", "\n", "\r", "\f", "",
     "U+00A0", "U+1680", "U+2000", "U+2001", "U+2002", "U+2003", "U+2004",
     "U+2005", "U+2006", "U+2007", "U+2008", "U+2009", "U+200A", "U+2028",
     "U+2029", "U+202F", "U+205F", "U+3000", "U+FEFF"}

RECURSIVE SeqsUpTo(_, _)
SeqsUpTo(S, n) ==
    IF n = 0 THEN {<<>>}
    ELSE LET shorter == SeqsUpTo(S, n - 1)
         IN  shorter \cup
             { Append(l, c) : l \in {x \in shorter : Len(x) = n - 1}, c \in S }

\* What is typed into the input: nothing, blanks, or a question, which is
\* one the preset buttons offer as well.
Texts ==
    SeqsUpTo(Chars, MaxTextLen) \cup { PresetQueries[i] : i \in 1..MaxPresets }

\* String.prototype.trim
RECURSIVE TrimStart(_)
TrimStart(s) ==
    IF s # <<>> /\ Head(s) \in Whitespace THEN TrimStart(Tail(s)) ELSE s

RECURSIVE TrimEnd(_)
TrimEnd(s) ==
    IF s # <<>> /\ s[Len(s)] \in Whitespace
    THEN TrimEnd(SubSeq(s, 1, Len(s) - 1))
    ELSE s

Trim(s) == TrimEnd(TrimStart(s))

----------------------------------------------------------------------------
(* Document registry: pure parts of the handlers                           *)

\* arr.filter(f => f.processing_status === 'completed').length
CompletedCount(docs) ==
    Cardinality({i \in 1..Len(docs) : docs[i].processing_status = "completed"})

\* f.id || f.task_id || f.filename
TaskIdOf(f) ==
    IF f.id # "" THEN f.id ELSE IF f.task_id # "" THEN f.task_id ELSE f.filename

\* The isActive rule of loadUploadedFiles; idx is the 0-based index.
IsActiveAt(docs, idx) ==
    /\ idx = CompletedCount(docs) - 1
    /\ docs[idx + 1].processing_status = "completed"

\* The map of loadUploadedFiles.
DeriveFiles(docs) ==
    [i \in 1..Len(docs) |->
        [filename |-> docs[i].filename,
         id |-> docs[i].id,
         processing_status |-> docs[i].processing_status,
         task_id |-> TaskIdOf(docs[i]),
         ingested |-> (docs[i].processing_status = "completed"),
         isActive |-> IsActiveAt(docs, i - 1)]]

\* files.find(f => f.isActive)
FindActive(files) ==
    IF \E i \in 1..Len(files) : files[i].isActive
    THEN LET first == CHOOSE i \in 1..Len(files) :
                        /\ files[i].isActive
                        /\ \A j \in 1..(i - 1) : ~files[j].isActive
         IN  files[first]
    ELSE Undefined

\* handleSetActive, were it to mark the target without clearing the others.
SetActiveKeepsOthers(files, activeIdx) ==
    [files EXCEPT ![activeIdx].isActive = TRUE]

\* The map of handleSetActive.
SetActiveUpdated(files, activeIdx) ==
    [i \in 1..Len(files) |-> [files[i] EXCEPT !.isActive = (i = activeIdx)]]

\* handleToggleIngested, were it to leave the other entries as they are.
ToggleKeepsOthers(files, idx) ==
    [files EXCEPT ![idx].ingested = ~files[idx].ingested,
                  ![idx].isActive = ~files[idx].ingested]

\* The map of handleToggleIngested.
ToggleUpdated(files, idx) ==
    LET newStatus == ~files[idx].ingested
    IN  [i \in 1..Len(files) |->
            IF i = idx
            THEN [files[i] EXCEPT !.ingested = newStatus, !.isActive = newStatus]
            ELSE [files[i] EXCEPT !.isActive = FALSE]]

ActiveCount(files) == Cardinality({i \in 1..Len(files) : files[i].isActive})

----------------------------------------------------------------------------
(* Requests in flight. `live` says whether the component instance that     *)
(* issued the request is still mounted: the setters of an unmounted        *)
(* component do nothing, the setters handed down by App still work.        *)

AdminReq(kind, files, idx) ==
    [kind |-> kind, files |-> files, idx |-> idx, live |-> TRUE]
ListReq == AdminReq("list", <<>>, 0)
One(r) == SetToBag({r})

\* Every request of the bag, marked as issued by an unmounted instance.
RECURSIVE Orphaned(_)
Orphaned(bag) ==
    IF bag = EmptyBag THEN EmptyBag
    ELSE LET r == CHOOSE x \in BagToSet(bag) : TRUE
         IN  One([r EXCEPT !.live = FALSE]) (+) Orphaned(bag (-) One(r))

----------------------------------------------------------------------------
(* Object identity. React compares a new state value and the dependencies  *)
(* of an effect with Object.is: publishing the object App already holds    *)
(* changes nothing. Every refresh, handleSetActive and handleToggleIngested*)
(* builds a new array of new entry objects; only handleSetActive publishes *)
(* an object of the array its closure holds. An array is named by a number *)
(* `gen`, an entry object by its array and its index in it.                *)

\* The object at index idx of the array gen.
ObjectRef(gen, idx) == [gen |-> gen, idx |-> idx]
\* An object that is in no array a handler can still reach.
NoRef == ObjectRef(-1, 0)

\* The arrays the closures of the pending handleSetActive calls hold.
SnapshotGens(reqs) ==
    { q.gen : q \in { x \in BagToSet(reqs) : x.kind = "setActive" } }

\* The name of a new array: the first number that names no array a closure
\* holds.
NewArray(reqs) ==
    LET used == SnapshotGens(reqs)
    IN  CHOOSE g \in 0..Cardinality(used) :
            g \notin used /\ \A h \in 0..(g - 1) : h \in used

\* `ref` as long as a handler can still publish its object: the object is in
\* the current array `gen` or in an array a closure holds.
StillHeld(ref, reqs, gen) ==
    IF ref.gen = gen \/ ref.gen \in SnapshotGens(reqs) THEN ref ELSE NoRef

\* The index of files.find(f => f.isActive), 0 when there is none.
ActiveIndex(files) ==
    IF \E i \in 1..Len(files) : files[i].isActive
    THEN CHOOSE i \in 1..Len(files) :
            /\ files[i].isActive
            /\ \A j \in 1..(i - 1) : ~files[j].isActive
    ELSE 0

----------------------------------------------------------------------------
(* Chat: values and pure parts of the handlers                             *)

GreetingContent == <<"Hello! I'm your document assistant. How can I help you today?">>
ErrorContent ==
    <<"Sorry, I encountered an error processing your question. Please try again.">>

\* Messages (their timestamps are left out).
BOT_GREETING == [role |-> "assistant", content |-> GreetingContent]
UserMessage(text) == [role |-> "user", content |-> text]
AssistantMessage(response) ==
    [role |-> "assistant", content |-> response.answer,
     confidence |-> response.confidence, sourcesUsed |-> response.sources_used]
\* The error message, were it to lack its flag.
ErrorMessageUnflagged == [role |-> "assistant", content |-> ErrorContent]

ErrorMessage == [role |-> "assistant", content |-> ErrorContent, error |-> TRUE]

\* What the backend answers a query with (confidence in percent).
QueryResponses ==
    { [answer |-> <<"The summary.">>, confidence |-> 90, sources_used |-> 3] }

\* What the backend answers a history request with.
HistoryResponses ==
    { [history |-> <<>>],
      [history |-> <<UserMessage(<<"a">>)>>],
      [detail |-> "no history"] }

\* The loaded history, were the greeting not put in place of an empty list.
LoadedMessagesRaw(resp) ==
    IF "history" \in DOMAIN resp THEN resp.history ELSE <<>>

\* resp.history || [], then the greeting in place of an empty list
LoadedMessages(resp) ==
    LET loaded == IF "history" \in DOMAIN resp THEN resp.history ELSE <<>>
    IN  IF Len(loaded) = 0 THEN <<BOT_GREETING>> ELSE loaded

\* `chat_${Date.now()}`
SessionIdAt(now) == [chat |-> now]

\* prev.findIndex(s => s.sessionId === sessionId), 1-based, 0 for -1
FindIndex(sessions, sessionId) ==
    IF \E i \in 1..Len(sessions) : sessions[i].sessionId = sessionId
    THEN CHOOSE i \in 1..Len(sessions) :
            /\ sessions[i].sessionId = sessionId
            /\ \A j \in 1..(i - 1) : sessions[j].sessionId # sessionId
    ELSE 0

\* The updater loadChatHistory hands to setChatSessions.
WithHistory(prev, sessionId, loaded, now) ==
    LET index == FindIndex(prev, sessionId)
    IN  IF index # 0
        THEN [prev EXCEPT ![index] =
                [sessionId |-> sessionId, createdAt |-> prev[index].createdAt,
                 messages |-> loaded]]
        ELSE Append(prev, [sessionId |-> sessionId, createdAt |-> now,
                           messages |-> loaded])

\* The new session, were it put behind the existing ones.
WithNewSessionLast(prev, session) == Append(prev, session)

\* The updater handleNewChat hands to setChatSessions.
WithNewSession(prev, session) == <<session>> \o prev

\* The updater handleSendMessage hands to setChatSessions.
WithExchange(prev, sessionId, userMessage, assistantMessage) ==
    LET index == FindIndex(prev, sessionId)
    IN  IF index = 0 THEN prev
        ELSE [prev EXCEPT ![index].messages =
                prev[index].messages \o <<userMessage, assistantMessage>>]

\* The first guard, were the text not trimmed.
SendIgnoredNoTrim(messageToSend, sending) ==
    messageToSend = <<>> \/ sending

\* The first guard, were `loading` not looked at.
SendIgnoredNoLoading(messageToSend, sending) ==
    Trim(messageToSend) = <<>>

\* The first guard of handleSendMessage: !messageToSend.trim() || loading
SendIgnored(messageToSend, sending) ==
    Trim(messageToSend) = <<>> \/ sending

\* The second guard, were it missing.
NoDocumentUnchecked(hasDoc, doc) == FALSE

\* The second guard of handleSendMessage: !hasDocument || !activeDocument
NoDocument(hasDoc, doc) == ~hasDoc \/ ~Truthy(doc)

ChatReq(kind, sessionId, text) ==
    [kind |-> kind, sessionId |-> sessionId, text |-> text, live |-> TRUE]

\* Live query requests: those of the mounted chat interface.
LiveQueries == {r \in BagToSet(chatReqs) : r.kind = "query" /\ r.live}
QueriesFor(sessionId) ==
    {r \in BagToSet(chatReqs) : r.kind = "query" /\ r.sessionId = sessionId}

----------------------------------------------------------------------------
(* The user's session and what App renders                                 *)

\* The identity and the token the backend hands out at login.
SomeUser == [username |-> "admin"]
AccessToken == [bearer |-> "token-1"]

\* localStorage, as a map from the keys in use to the string stored; the
\* value of a key that is not set is Null.
EmptyStorage ==
    [k \in {"user", "access_token", "isDemoMode", "demoFilesIngested"} |-> Null]
\* The strings stored for a boolean.
TrueText == [text |-> "true"]
FalseText == [text |-> "false"]
\* The effect of DemoModeProvider on [isDemoMode]:
\* localStorage.setItem("isDemoMode", isDemoMode)
WithDemoModeStored(storage, demoMode) ==
    [storage EXCEPT !["isDemoMode"] = IF demoMode THEN TrueText ELSE FalseText]
\* The status of demoIngestState; the first stands for null.
NoStatus == "null"
\* JSON.stringify of the identity.
Stringified(identity) == [json |-> identity]
StorageAfterLogin ==
    [EmptyStorage EXCEPT !["access_token"] = AccessToken,
                         !["user"] = Stringified(SomeUser),
                         !["isDemoMode"] = FalseText]
\* A stored identity that is not JSON.
Unparseable == [text |-> "{"]
\* JSON.parse of a stored string: the value, or a SyntaxError thrown.
ParseThrows(stored) == "json" \notin DOMAIN stored
JsonParse(stored) == stored.json

\* What localStorage can hold when the application starts: the identity and
\* the token of a login, or strings put there otherwise, the empty string
\* among them, and the flag DemoModeProvider stored in an earlier visit,
\* which no logout removes.
StoredAtStart ==
    { [EmptyStorage EXCEPT !["user"] = u, !["access_token"] = t,
                           !["isDemoMode"] = d] :
        u \in {Null, EmptyText, Stringified(SomeUser), Unparseable},
        t \in {Null, EmptyText, AccessToken},
        d \in {Null, FalseText, TrueText} }

\* How a request for the session list would end: rejected, or resolved with
\* a body that holds sessions, none, or no list at all.
SessionListAnswers ==
    { [kind |-> "rejected"],
      [kind |-> "resolved", body |-> [message |-> "ok"]],
      [kind |-> "resolved", body |-> [sessions |-> <<>>]],
      [kind |-> "resolved",
       body |-> [sessions |-> << [sessionId |-> [chat |-> 0], createdAt |-> 0,
                                  messages |-> <<>>] >>]] }

\* The methods of the ApiService class that App.jsx, the Login component and
\* the two views call.
ApiMethods ==
    { "login", "logout", "triggerDemoFileIngest", "uploadDocument",
      "getProcessingStatus", "listDocuments", "setActiveDocument",
      "updateIngestedStatus", "queryDocument", "getChatHistory",
      "clearChatHistory", "getSystemStatus", "getUserProfile", "healthCheck",
      "clearAllChatHistory" }

\* Login's messages.
NoError == "none shown"
InvalidCredentials == "Invalid credentials. Please try again."

\* How a login request ends: accepted with the token and the identity,
\* answered with a status that is not ok, or failed in transport.
LoginOutcomes ==
    { [kind |-> "accepted", access_token |-> AccessToken, user |-> SomeUser],
      [kind |-> "rejected"],
      [kind |-> "failed"] }
\* How a logout request ends: fetch resolved, whatever the status, or threw.
LogoutOutcomes == {"resolved", "threw"}

\* App's render: the loading screen, Login, or one of the two views.
Authenticated == ~isLoading /\ user # Null
ChatMounted == Authenticated /\ currentView = "chat"
AdminMounted == Authenticated /\ currentView = "admin"

----------------------------------------------------------------------------
(* Uploads: values                                                         *)

\* File names are sequences of characters.
UpperCase == <<"A", "B", "C", "D", "E", "F", "G", "H", "I", "J", "K", "L", "M",
               "N", "O", "P", "Q", "R", "S", "T", "U", "V", "W", "X", "Y", "Z">>
LowerCase == <<"a", "b", "c", "d", "e", "f", "g", "h", "i", "j", "k", "l", "m",
               "n", "o", "p", "q", "r", "s", "t", "u", "v", "w", "x", "y", "z">>

\* String.prototype.toLowerCase
ToLowerChar(c) ==
    IF \E i \in 1..Len(UpperCase) : UpperCase[i] = c
    THEN LowerCase[CHOOSE i \in 1..Len(UpperCase) : UpperCase[i] = c]
    ELSE c
ToLowerCase(s) == [i \in 1..Len(s) |-> ToLowerChar(s[i])]

\* name.split('.').pop(): what follows the last dot, the whole name when it
\* has no dot.
LastSegment(name) ==
    LET dots == {i \in 1..Len(name) : name[i] = "."}
    IN  IF dots = {} THEN name
        ELSE SubSeq(name, (CHOOSE i \in dots : \A j \in dots : j <= i) + 1,
                    Len(name))

\* '.' + file.name.split('.').pop().toLowerCase()
FileExt(name) == <<".">> \o ToLowerCase(LastSegment(name))

\* allowedTypes
AllowedTypes == { <<".", "p", "d", "f">>, <<".", "d", "o", "c", "x">>,
                  <<".", "t", "x", "t">> }

\* The size limit, were the limit itself refused.
TooLargeInclusive(size) == size >= 200 * 1024 * 1024

\* file.size > 200 * 1024 * 1024
TooLarge(size) == size > 200 * 1024 * 1024

\* !allowedTypes.includes(fileExt)
UnsupportedFormat(name) == FileExt(name) \notin AllowedTypes

\* The files offered for upload.
UploadNames ==
    { <<"a", ".", "p", "d", "f">>, <<"a", ".", "P", "D", "F">>,
      <<"b", ".", "d", "o", "c", "x">>, <<"c", ".", "t", "x", "t">>,
      <<"p", "d", "f">>, <<"x", ".", "e", "x", "e">>,
      <<"a", ".", "p", "d", "f", ".", "e", "x", "e">>, <<"a">> }
UploadSizes == { 1024, 200 * 1024 * 1024 - 1, 200 * 1024 * 1024,
                 200 * 1024 * 1024 + 1 }
UploadFiles == { [name |-> n, size |-> z] : n \in UploadNames, z \in UploadSizes }

\* The alerts of handleFileUpload.
FormatAlert == "Unsupported file format. Please upload PDF, DOCX, or TXT files only."
SizeAlert == "File too large. Maximum size is 200MB."

\* The upload progress map with no entry.
NoEntries == [name \in {} |-> Null]

\* { ...prev, [key]: entry }
Put(map, key, entry) ==
    [k \in DOMAIN map \cup {key} |-> IF k = key THEN entry ELSE map[k]]

\* delete newState[key]
Delete(map, key) == [k \in DOMAIN map \ {key} |-> map[k]]

\* The entries handleFileUpload writes.
Uploading(progress) == [progress |-> progress, status |-> "uploading"]
UploadFailed(message) == [progress |-> 0, status |-> "error", error |-> message]

\* The progress an xhr progress event reports, in percent.
UploadProgressValues == {50}

\* How the XMLHttpRequest of uploadDocument can end; a response carries a
\* status text or, as over HTTP/2, an empty one. A body that is JSON is
\* held parsed: an object with a task_id, an object without one, an object
\* whose task_id is the empty string, which is falsy as null and 0 are, or
\* the body `null`.
XhrOutcomes ==
    { [event |-> "load", status |-> 200, statusText |-> "OK",
       responseText |-> [json |-> [task_id |-> "task-1"]]],
      [event |-> "load", status |-> 200, statusText |-> "OK",
       responseText |-> [json |-> [message |-> "accepted"]]],
      [event |-> "load", status |-> 200, statusText |-> "OK",
       responseText |-> [json |-> [task_id |-> ""]]],
      [event |-> "load", status |-> 200, statusText |-> "OK",
       responseText |-> [json |-> Null]],
      [event |-> "load", status |-> 200, statusText |-> "OK",
       responseText |-> [text |-> "<html>"]],
      [event |-> "load", status |-> 500, statusText |-> "",
       responseText |-> [text |-> ""]],
      [event |-> "load", status |-> 500, statusText |-> "Internal Server Error",
       responseText |-> [text |-> ""]],
      [event |-> "load", status |-> 404, statusText |-> "Not Found",
       responseText |-> [text |-> ""]],
      [event |-> "load", status |-> 413, statusText |-> "",
       responseText |-> [text |-> ""]],
      [event |-> "error"] }

\* uploadDocument: what its promise settles with. Reading task_id of the
\* body `null` throws inside the try, so the catch answers as for a body
\* that JSON.parse rejects; `!json.task_id` holds of a task_id that is
\* absent or falsy.
UploadSettlement(xhr) ==
    IF xhr.event = "error"
    THEN [ok |-> FALSE, message |-> "Upload failed due to network error"]
    ELSE IF xhr.status # 200
    THEN [ok |-> FALSE,
          message |-> "Upload failed: " \o ToString(xhr.status) \o " "
                        \o xhr.statusText]
    ELSE IF \/ "json" \notin DOMAIN xhr.responseText
            \/ xhr.responseText.json = Null
    THEN [ok |-> FALSE, message |-> "Invalid JSON response from upload"]
    ELSE IF \/ "task_id" \notin DOMAIN xhr.responseText.json
            \/ xhr.responseText.json.task_id = ""
    THEN [ok |-> FALSE, message |-> "Upload response missing task_id"]
    ELSE [ok |-> TRUE, task_id |-> xhr.responseText.json.task_id]

\* What the backend answers a processing-status request with.
StatusResponses ==
    { [status |-> "processing", progress |-> 50, message |-> "Extracting text"],
      [status |-> "completed", progress |-> 100, message |-> "Done"],
      [status |-> "error", progress |-> 0, message |-> "Extraction failed"],
      [detail |-> "no status"] }

\* The entry the poll callback writes for a status response.
StatusEntry(status) ==
    [progress |-> IF "progress" \in DOMAIN status THEN status.progress ELSE 0,
     status |-> IF "status" \in DOMAIN status THEN status.status ELSE "unknown",
     message |-> IF "message" \in DOMAIN status THEN status.message ELSE ""]

\* The entry the poll callback writes when the status request failed.
ProcessingFailed ==
    [progress |-> 0, status |-> "error", error |-> "Processing failed"]

\* The statuses on which the poll callback clears its timer, were 'error'
\* not one of them.
IsTerminalCompletedOnly(status) ==
    "status" \in DOMAIN status /\ status.status = "completed"

\* status?.status === 'completed' || status?.status === 'error'
IsTerminal(status) ==
    "status" \in DOMAIN status /\ status.status \in {"completed", "error"}

\* A polling loop: the interval of monitorProcessing(taskId, filename).
\* `timer` says whether the interval is still set, `refreshes` counts the
\* calls of loadUploadedFiles its callbacks have made.
Monitor(taskId, filename, live) ==
    [taskId |-> taskId, filename |-> filename, timer |-> TRUE, live |-> live,
     refreshes |-> 0]

\* The requests of the upload flow.
UploadReq(file) == [kind |-> "upload", file |-> file, live |-> TRUE]

\* The status requests a polling loop is awaiting.
StatusRequestsOf(m) ==
    BagCardinality([r \in { q \in BagToSet(adminReqs) :
                              q.kind = "status" /\ q.monitor = m }
                     |-> CopiesIn(r, adminReqs)])

\* The continuation of the poll callback that awaited loadUploadedFiles:
\* setTimeout(remove the entry, 3000). `r` is the list request; the one a
\* polling loop issued names its monitor.
AfterRefresh(r) ==
    /\ graceTimers' =
          IF "monitor" \in DOMAIN r
          THEN graceTimers (+) One([filename |-> monitors[r.monitor].filename,
                                    live |-> r.live])
          ELSE graceTimers
    /\ UNCHANGED <<uploadProgress, monitors>>

\* The fixed demo documents, by task_id.
DEMO_FILES == <<"demo_graph", "demo_data">>

\* The requests of the demo ingestion, for the idx-th demo document, and
\* the timeout between two rounds of pollStatuses.
DemoTriggerReq(idx, live) == [kind |-> "demoTrigger", idx |-> idx, live |-> live]
DemoStatusReq(idx, live) == [kind |-> "demoStatus", idx |-> idx, live |-> live]

\* The requests in flight together with the pending timeouts of
\* pollStatuses: what a new demo ingestion is bounded by.
DemoRuns == BagCardinality(adminReqs) + BagCardinality(demoTimers)

----------------------------------------------------------------------------
(* App.jsx: publishing the active document                                 *)

\* handleActiveDocumentChange, and in a mounted chat interface the effect
\* on [activeDocument] that follows the render.
Publish(document) ==
    /\ activeDocument' = document
    /\ IF ChatMounted
       THEN /\ hasDocument' = Truthy(document)
            /\ messages' = IF Truthy(document) /\ Len(messages) = 0
                           THEN <<BOT_GREETING>> ELSE messages
       ELSE UNCHANGED <<hasDocument, messages>>

NoPublish == UNCHANGED <<activeDocument, hasDocument, messages>>

----------------------------------------------------------------------------
(* Document registry: actions                                              *)

\* loadUploadedFiles after listDocuments resolved with `docs`.
ListResolved(r, docs) ==
    /\ BagIn(r, adminReqs) /\ r.kind = "list"
    /\ adminReqs' = adminReqs (-) One(r)
    /\ uploadedFiles' = IF r.live THEN DeriveFiles(docs) ELSE uploadedFiles
    /\ filesGen' = IF r.live THEN NewArray(adminReqs') ELSE filesGen
    /\ IF Truthy(FindActive(DeriveFiles(docs)))
       THEN /\ Publish(FindActive(DeriveFiles(docs)))
            /\ publishedRef' =
                  IF r.live
                  THEN ObjectRef(filesGen', ActiveIndex(DeriveFiles(docs)))
                  ELSE NoRef
       ELSE /\ NoPublish
            /\ publishedRef' =
                  StillHeld(publishedRef, adminReqs',
                            IF r.live THEN -1 ELSE filesGen)
    /\ notice' = None
    /\ UNCHANGED <<currentView, chatSessions, activeSessionId,
                   inputMessage, loading, chatReqs, clock>>
    /\ AfterRefresh(r)
    /\ UNCHANGED authVars
    /\ UNCHANGED demoVars

\* loadUploadedFiles after listDocuments threw.
ListRejected(r) ==
    /\ BagIn(r, adminReqs) /\ r.kind = "list"
    /\ adminReqs' = adminReqs (-) One(r)
    /\ uploadedFiles' = IF r.live THEN <<>> ELSE uploadedFiles
    /\ filesGen' = IF r.live THEN NewArray(adminReqs') ELSE filesGen
    /\ Publish(Null)
    /\ publishedRef' = NoRef
    /\ notice' = None
    /\ UNCHANGED <<currentView, chatSessions, activeSessionId,
                   inputMessage, loading, chatReqs, clock>>
    /\ AfterRefresh(r)
    /\ UNCHANGED authVars
    /\ UNCHANGED demoVars

\* handleSetActive up to its await, were the document not looked at before
\* the request is made.
HandleSetActiveUnchecked(activeIdx) ==
    /\ AdminMounted
    /\ BagCardinality(adminReqs) < MaxAdminReqs
    /\ adminReqs' = adminReqs (+)
                      One([kind |-> "setActive", files |-> uploadedFiles,
                           idx |-> activeIdx, gen |-> filesGen, live |-> TRUE])
    /\ notice' = None
    /\ UNCHANGED <<appVars, uploadedFiles, chatVars, clock>>
    /\ UNCHANGED <<uploadVars, authVars>>
    /\ UNCHANGED demoVars
    /\ UNCHANGED refVars

\* handleSetActive up to its await: a click on row activeIdx, or a call with
\* an index at which the list has no document.
HandleSetActive(activeIdx) ==
    /\ AdminMounted
    /\ IF \/ activeIdx \notin 1..Len(uploadedFiles)
          \/ uploadedFiles[activeIdx].task_id = ""
       THEN /\ notice' = NoIdAlert
            /\ UNCHANGED adminReqs
       ELSE /\ BagCardinality(adminReqs) < MaxAdminReqs
            /\ adminReqs' = adminReqs (+)
                              One([kind |-> "setActive", files |-> uploadedFiles,
                                   idx |-> activeIdx, gen |-> filesGen,
                                   live |-> TRUE])
            /\ notice' = None
    /\ UNCHANGED <<appVars, uploadedFiles, chatVars, clock>>
    /\ UNCHANGED <<uploadVars, authVars>>
    /\ UNCHANGED demoVars
    /\ UNCHANGED refVars

\* handleSetActive after setActiveDocument resolved.
SetActiveResolved(r) ==
    /\ BagIn(r, adminReqs) /\ r.kind = "setActive"
    /\ adminReqs' = adminReqs (-) One(r)
    /\ uploadedFiles' = IF r.live THEN SetActiveUpdated(r.files, r.idx)
                        ELSE uploadedFiles
    /\ filesGen' = IF r.live THEN NewArray(adminReqs') ELSE filesGen
    /\ IF publishedRef = ObjectRef(r.gen, r.idx)
       THEN NoPublish
       ELSE Publish(r.files[r.idx])
    /\ publishedRef' = StillHeld(ObjectRef(r.gen, r.idx), adminReqs',
                                 IF r.live THEN -1 ELSE filesGen)
    /\ notice' = None
    /\ UNCHANGED <<currentView, chatSessions, activeSessionId,
                   inputMessage, loading, chatReqs, clock>>
    /\ UNCHANGED <<uploadVars, authVars>>
    /\ UNCHANGED demoVars


\* handleSetActive after setActiveDocument threw: an alert.
SetActiveRejected(r) ==
    /\ BagIn(r, adminReqs) /\ r.kind = "setActive"
    /\ adminReqs' = adminReqs (-) One(r)
    /\ notice' = SetActiveAlert
    /\ publishedRef' = StillHeld(publishedRef, adminReqs', filesGen)
    /\ UNCHANGED <<appVars, uploadedFiles, filesGen, chatVars, clock>>
    /\ UNCHANGED <<uploadVars, authVars>>
    /\ UNCHANGED demoVars

\* handleToggleIngested up to its await (a click on row idx of the table).
HandleToggleIngested(idx) ==
    /\ AdminMounted
    /\ idx \in 1..Len(uploadedFiles)
    /\ BagCardinality(adminReqs) < MaxAdminReqs
    /\ adminReqs' = adminReqs (+) One(AdminReq("toggle", uploadedFiles, idx))
    /\ notice' = None
    /\ UNCHANGED <<appVars, uploadedFiles, chatVars, clock>>
    /\ UNCHANGED <<uploadVars, authVars>>
    /\ UNCHANGED demoVars
    /\ UNCHANGED refVars

\* handleToggleIngested after updateIngestedStatus resolved.
ToggleResolved(r) ==
    /\ BagIn(r, adminReqs) /\ r.kind = "toggle"
    /\ adminReqs' = adminReqs (-) One(r)
    /\ uploadedFiles' = IF r.live THEN ToggleUpdated(r.files, r.idx)
                        ELSE uploadedFiles
    /\ filesGen' = IF r.live THEN NewArray(adminReqs') ELSE filesGen
    /\ Publish(FindActive(ToggleUpdated(r.files, r.idx)))
    /\ publishedRef' =
          IF r.live /\ ActiveIndex(ToggleUpdated(r.files, r.idx)) # 0
          THEN ObjectRef(filesGen', ActiveIndex(ToggleUpdated(r.files, r.idx)))
          ELSE NoRef
    /\ notice' = None
    /\ UNCHANGED <<currentView, chatSessions, activeSessionId,
                   inputMessage, loading, chatReqs, clock>>
    /\ UNCHANGED <<uploadVars, authVars>>
    /\ UNCHANGED demoVars

\* handleToggleIngested after updateIngestedStatus threw: an alert.
ToggleRejected(r) ==
    /\ BagIn(r, adminReqs) /\ r.kind = "toggle"
    /\ adminReqs' = adminReqs (-) One(r)
    /\ notice' = ToggleAlert
    /\ UNCHANGED <<appVars, uploadedFiles, chatVars, clock>>
    /\ UNCHANGED <<uploadVars, authVars>>
    /\ UNCHANGED demoVars
    /\ UNCHANGED refVars

----------------------------------------------------------------------------
(* Uploads: actions                                                        *)

\* handleFileUpload up to its await: the two validations, then the entry
\* and the request.
HandleFileUpload(file) ==
    /\ AdminMounted
    /\ IF UnsupportedFormat(file.name)
       THEN /\ notice' = FormatAlert
            /\ UNCHANGED <<uploadProgress, adminReqs>>
       ELSE IF TooLarge(file.size)
       THEN /\ notice' = SizeAlert
            /\ UNCHANGED <<uploadProgress, adminReqs>>
       ELSE /\ Cardinality(DOMAIN uploadProgress) < MaxUploads
            /\ Len(monitors) < MaxUploads
            /\ BagCardinality(adminReqs) < MaxAdminReqs
            /\ uploadProgress' = Put(uploadProgress, file.name, Uploading(0))
            /\ adminReqs' = adminReqs (+) One(UploadReq(file))
            /\ notice' = None
    /\ UNCHANGED <<appVars, uploadedFiles, monitors, graceTimers, chatVars,
                   clock, authVars>>
    /\ UNCHANGED demoVars
    /\ UNCHANGED refVars

\* The onProgress callback of an upload in flight.
UploadProgressed(r, progress) ==
    /\ BagIn(r, adminReqs) /\ r.kind = "upload"
    /\ uploadProgress' = IF r.live
                          THEN Put(uploadProgress, r.file.name, Uploading(progress))
                          ELSE uploadProgress
    /\ notice' = None
    /\ UNCHANGED <<appVars, adminVars, monitors, graceTimers, chatVars, clock,
                   authVars>>
    /\ UNCHANGED demoVars
    /\ UNCHANGED refVars

\* handleFileUpload after uploadDocument settled, were a task_id looked for
\* by its presence in the body and not by its truth.
UploadSettledByPresence(r, xhr) ==
    /\ BagIn(r, adminReqs) /\ r.kind = "upload"
    /\ adminReqs' = adminReqs (-) One(r)
    /\ IF /\ xhr.event = "load" /\ xhr.status = 200
          /\ "json" \in DOMAIN xhr.responseText
          /\ xhr.responseText.json # Null
          /\ "task_id" \in DOMAIN xhr.responseText.json
       THEN /\ Len(monitors) < MaxUploads
            /\ monitors' = Append(monitors,
                                   Monitor(xhr.responseText.json.task_id,
                                           r.file.name, r.live))
            /\ UNCHANGED uploadProgress
       ELSE /\ uploadProgress' =
                 IF r.live
                 THEN Put(uploadProgress, r.file.name,
                          UploadFailed(UploadSettlement(xhr).message))
                 ELSE uploadProgress
            /\ UNCHANGED monitors
    /\ notice' = None
    /\ UNCHANGED <<appVars, uploadedFiles, graceTimers, chatVars, clock, authVars>>
    /\ UNCHANGED demoVars
    /\ UNCHANGED refVars

\* handleFileUpload after uploadDocument settled: a rejection, or a response
\* whose task_id is falsy (`!response?.task_id`), which throws, reaches the
\* catch, which writes the error entry with the message of the error;
\* otherwise monitorProcessing sets its interval.
UploadSettled(r, xhr) ==
    /\ BagIn(r, adminReqs) /\ r.kind = "upload"
    /\ adminReqs' = adminReqs (-) One(r)
    /\ LET settled == UploadSettlement(xhr)
       IN  IF settled.ok /\ settled.task_id # ""
           THEN /\ Len(monitors) < MaxUploads
                /\ monitors' = Append(monitors,
                                       Monitor(settled.task_id, r.file.name, r.live))
                /\ UNCHANGED uploadProgress
           ELSE /\ uploadProgress' =
                     IF r.live
                     THEN Put(uploadProgress, r.file.name,
                              UploadFailed(IF settled.ok
                                           THEN "Upload response missing task_id"
                                           ELSE settled.message))
                     ELSE uploadProgress
                /\ UNCHANGED monitors
    /\ notice' = None
    /\ UNCHANGED <<appVars, uploadedFiles, graceTimers, chatVars, clock, authVars>>
    /\ UNCHANGED demoVars
    /\ UNCHANGED refVars

\* A tick of the interval: the callback up to its await. The interval does
\* not wait for the callback of the tick before.
PollTick(m) ==
    /\ m \in DOMAIN monitors
    /\ monitors[m].timer
    /\ BagCardinality(adminReqs) < MaxAdminReqs
    /\ adminReqs' = adminReqs (+) One([kind |-> "status", monitor |-> m,
                                        live |-> monitors[m].live])
    /\ notice' = None
    /\ UNCHANGED <<appVars, uploadedFiles, uploadVars, chatVars, clock, authVars>>
    /\ UNCHANGED demoVars
    /\ UNCHANGED refVars

\* The callback after getProcessingStatus resolved: the entry, then on a
\* terminal status clearInterval, and on 'completed' loadUploadedFiles up to
\* its await.
StatusResolved(r, status) ==
    /\ BagIn(r, adminReqs) /\ r.kind = "status"
    /\ uploadProgress' =
          IF r.live
          THEN Put(uploadProgress, monitors[r.monitor].filename, StatusEntry(status))
          ELSE uploadProgress
    /\ IF IsTerminal(status) /\ status.status = "completed"
       THEN /\ adminReqs' = (adminReqs (-) One(r)) (+)
                               One([kind |-> "list", files |-> <<>>, idx |-> 0,
                                    live |-> monitors[r.monitor].live,
                                    monitor |-> r.monitor])
            /\ monitors' = [monitors EXCEPT ![r.monitor].timer = FALSE,
                                            ![r.monitor].refreshes = @ + 1]
       ELSE /\ adminReqs' = adminReqs (-) One(r)
            /\ monitors' = IF IsTerminal(status)
                            THEN [monitors EXCEPT ![r.monitor].timer = FALSE]
                            ELSE monitors
    /\ notice' = None
    /\ UNCHANGED <<appVars, uploadedFiles, graceTimers, chatVars, clock, authVars>>
    /\ UNCHANGED demoVars
    /\ UNCHANGED refVars

\* The callback after getProcessingStatus threw: clearInterval and the
\* error entry.
StatusRejected(r) ==
    /\ BagIn(r, adminReqs) /\ r.kind = "status"
    /\ adminReqs' = adminReqs (-) One(r)
    /\ monitors' = [monitors EXCEPT ![r.monitor].timer = FALSE]
    /\ uploadProgress' =
          IF r.live
          THEN Put(uploadProgress, monitors[r.monitor].filename, ProcessingFailed)
          ELSE uploadProgress
    /\ notice' = None
    /\ UNCHANGED <<appVars, uploadedFiles, graceTimers, chatVars, clock, authVars>>
    /\ UNCHANGED demoVars
    /\ UNCHANGED refVars

\* The timeout set after the refresh: the entry is removed.
GraceTimeout(t) ==
    /\ BagIn(t, graceTimers)
    /\ graceTimers' = graceTimers (-) One(t)
    /\ uploadProgress' = IF t.live THEN Delete(uploadProgress, t.filename)
                          ELSE uploadProgress
    /\ notice' = None
    /\ UNCHANGED <<appVars, adminVars, monitors, chatVars, clock, authVars>>
    /\ UNCHANGED demoVars
    /\ UNCHANGED refVars

----------------------------------------------------------------------------
(* Demo mode: the toggle of the admin view and startDemoIngestion          *)

\* The Demo Mode checkbox: setIsDemoMode(checked), then the effects on
\* [isDemoMode]: AdminDashboard's, which starts the ingestion up to its
\* first await or resets the demo state and calls loadUploadedFiles, and
\* again when that reset changed demoIngested; then the provider's, which
\* stores the mode.
SetIsDemoMode(checked) ==
    /\ AdminMounted
    /\ checked # isDemoMode
    /\ isDemoMode' = checked
    /\ IF checked
       THEN /\ IF ~demoIngested
               THEN /\ DemoRuns + 1 <= MaxAdminReqs
                    /\ demoIngestState' = "processing"
                    /\ adminReqs' = adminReqs (+) One(DemoTriggerReq(1, TRUE))
               ELSE UNCHANGED <<demoIngestState, adminReqs>>
            /\ UNCHANGED demoIngested
            /\ localStorage' = WithDemoModeStored(localStorage, checked)
       ELSE /\ demoIngestState' = NoStatus
            /\ demoIngested' = FALSE
            /\ localStorage' =
                  WithDemoModeStored(
                      [localStorage EXCEPT !["demoFilesIngested"] = Null], checked)
            /\ IF demoIngested
               THEN /\ BagCardinality(adminReqs) + 2 <= MaxAdminReqs
                    /\ adminReqs' = adminReqs (+) One(ListReq) (+) One(ListReq)
               ELSE /\ BagCardinality(adminReqs) < MaxAdminReqs
                    /\ adminReqs' = adminReqs (+) One(ListReq)
    /\ notice' = None
    /\ UNCHANGED <<appVars, uploadedFiles, uploadVars, chatVars, clock, user,
                   isLoading, token, authReqs, loginLoading, loginError,
                   demoTimers>>
    /\ UNCHANGED refVars

\* startDemoIngestion after triggerDemoFileIngest resolved for file r.idx:
\* the next file is triggered, or pollStatuses is called and asks for the
\* status of the first file.
DemoTriggerResolved(r) ==
    /\ BagIn(r, adminReqs) /\ r.kind = "demoTrigger"
    /\ adminReqs' = (adminReqs (-) One(r)) (+)
                       One(IF r.idx < Len(DEMO_FILES)
                           THEN DemoTriggerReq(r.idx + 1, r.live)
                           ELSE DemoStatusReq(1, r.live))
    /\ notice' = None
    /\ UNCHANGED <<appVars, uploadedFiles, uploadVars, chatVars, clock,
                   authVars, demoVars>>
    /\ UNCHANGED refVars

\* startDemoIngestion after triggerDemoFileIngest threw: the catch.
DemoTriggerRejected(r) ==
    /\ BagIn(r, adminReqs) /\ r.kind = "demoTrigger"
    /\ adminReqs' = adminReqs (-) One(r)
    /\ demoIngestState' = IF r.live THEN "error" ELSE demoIngestState
    /\ notice' = None
    /\ UNCHANGED <<appVars, uploadedFiles, uploadVars, chatVars, clock,
                   authVars, isDemoMode, demoIngested, demoTimers>>
    /\ UNCHANGED refVars

\* pollStatuses after getProcessingStatus resolved for file r.idx: a status
\* other than 'completed' ends the round and sets the timeout for the next;
\* 'completed' goes on to the next file, and after the last file shows
\* 'done' and calls loadUploadedFiles up to its await.
DemoStatusResolved(r, statusResp) ==
    /\ BagIn(r, adminReqs) /\ r.kind = "demoStatus"
    /\ IF ~("status" \in DOMAIN statusResp /\ statusResp.status = "completed")
       THEN /\ adminReqs' = adminReqs (-) One(r)
            /\ demoTimers' = demoTimers (+) One([live |-> r.live])
            /\ UNCHANGED demoIngestState
       ELSE IF r.idx < Len(DEMO_FILES)
       THEN /\ adminReqs' = (adminReqs (-) One(r)) (+)
                               One(DemoStatusReq(r.idx + 1, r.live))
            /\ UNCHANGED <<demoTimers, demoIngestState>>
       ELSE /\ adminReqs' = (adminReqs (-) One(r)) (+)
                               One([ListReq EXCEPT !.live = r.live])
            /\ demoIngestState' = IF r.live THEN "done" ELSE demoIngestState
            /\ UNCHANGED demoTimers
    /\ notice' = None
    /\ UNCHANGED <<appVars, uploadedFiles, uploadVars, chatVars, clock,
                   authVars, isDemoMode, demoIngested>>
    /\ UNCHANGED refVars

\* What getProcessingStatus rejects with: the TypeError of a fetch that
\* failed, or its own Error on a response that is not ok.
GetStatusErrors ==
    {"TypeError: Failed to fetch", "Error: Failed to get processing status"}

\* pollStatuses after getProcessingStatus threw: pollStatuses is not
\* awaited by startDemoIngestion, so its rejection reaches no catch and
\* surfaces as an unhandled rejection; the round ends and no timeout is set.
DemoStatusRejected(r, error) ==
    /\ BagIn(r, adminReqs) /\ r.kind = "demoStatus"
    /\ error \in GetStatusErrors
    /\ adminReqs' = adminReqs (-) One(r)
    /\ notice' = error
    /\ UNCHANGED <<appVars, uploadedFiles, uploadVars, chatVars, clock,
                   authVars, demoVars>>
    /\ UNCHANGED refVars

\* setTimeout(pollStatuses, 2000) fires: the next round asks for the status
\* of the first file.
DemoPollTimeout(t) ==
    /\ BagIn(t, demoTimers)
    /\ BagCardinality(adminReqs) < MaxAdminReqs
    /\ demoTimers' = demoTimers (-) One(t)
    /\ adminReqs' = adminReqs (+) One(DemoStatusReq(1, t.live))
    /\ notice' = None
    /\ UNCHANGED <<appVars, uploadedFiles, uploadVars, chatVars, clock,
                   authVars, isDemoMode, demoIngested, demoIngestState>>
    /\ UNCHANGED refVars

----------------------------------------------------------------------------
(* Chat interface: actions                                                 *)

\* The effect on [activeSessionId], were it to skip the load of a session
\* that is already in the list.
SessionEffectCached(next, shown, requests) ==
    IF next = activeSessionId \/ \E i \in 1..Len(chatSessions) :
                                    chatSessions[i].sessionId = next
    THEN /\ messages' = shown
         /\ chatReqs' = requests
    ELSE IF next = Null
    THEN /\ messages' = <<>>
         /\ chatReqs' = requests
    ELSE /\ BagCardinality(requests) < MaxChatReqs
         /\ messages' = shown
         /\ chatReqs' = requests (+) One([kind |-> "history", sessionId |-> next,
                                          text |-> <<>>, live |-> TRUE])

\* The effect on [activeSessionId], run in the mounted chat interface when
\* the pointer changed to `next`: loadChatHistory up to its await, or
\* setMessages([]). `shown` is the message list the handler itself left.
SessionEffect(next, shown, requests) ==
    IF next = activeSessionId
    THEN /\ messages' = shown
         /\ chatReqs' = requests
    ELSE IF next = Null
    THEN /\ messages' = <<>>
         /\ chatReqs' = requests
    ELSE /\ BagCardinality(requests) < MaxChatReqs
         /\ messages' = shown
         /\ chatReqs' = requests (+) One(ChatReq("history", next, <<>>))

\* onChange of the textarea, which is disabled while loading.
HandleInputChange(text) ==
    /\ ChatMounted
    /\ ~loading
    /\ inputMessage' = text
    /\ notice' = None
    /\ UNCHANGED <<appVars, adminVars, messages, loading, hasDocument,
                   chatReqs, clock>>
    /\ UNCHANGED <<uploadVars, authVars>>
    /\ UNCHANGED demoVars
    /\ UNCHANGED refVars

\* handleSendMessage up to its await.
HandleSendMessage(messageToSend) ==
    /\ ChatMounted
    /\ IF SendIgnored(messageToSend, loading)
       THEN /\ notice' = SendReturned
            /\ UNCHANGED <<messages, inputMessage, loading, chatReqs>>
       ELSE IF NoDocument(hasDocument, activeDocument)
       THEN /\ notice' = SendAlert
            /\ UNCHANGED <<messages, inputMessage, loading, chatReqs>>
       ELSE /\ Len(messages) + 2 <= MaxMsgs
            /\ BagCardinality(chatReqs) < MaxChatReqs
            /\ LET index == FindIndex(chatSessions, activeSessionId)
               IN  index # 0 =>
                     Len(chatSessions[index].messages)
                       + 2 * (1 + Cardinality(QueriesFor(activeSessionId)))
                     <= MaxMsgs
            /\ messages' = Append(messages, UserMessage(messageToSend))
            /\ inputMessage' = <<>>
            /\ loading' = TRUE
            /\ chatReqs' = chatReqs (+)
                             One(ChatReq("query", activeSessionId, messageToSend))
            /\ notice' = None
    /\ UNCHANGED <<appVars, adminVars, hasDocument, clock>>
    /\ UNCHANGED <<uploadVars, authVars>>
    /\ UNCHANGED demoVars
    /\ UNCHANGED refVars

\* onClick of the idx-th preset button: handleSendMessage(query). The
\* buttons are rendered in demo mode while the greeting is the only message.
HandlePresetClick(idx) ==
    /\ isDemoMode
    /\ Len(messages) = 1
    /\ messages[1].content = BOT_GREETING.content
    /\ idx \in 1..Len(PresetQueries)
    /\ HandleSendMessage(PresetQueries[idx])

\* onKeyPress of the textarea, which is disabled while loading; Enter:
\* handleSendMessage()
HandleKeyPress ==
    /\ ~loading
    /\ HandleSendMessage(inputMessage)

\* onClick of the Send button: handleSendMessage(event). The event is not
\* nullish, so it is the message to send, and event.trim is not a function.
HandleSendClick ==
    /\ ChatMounted
    /\ ~(loading \/ Trim(inputMessage) = <<>>)
    /\ notice' = SendTypeError
    /\ UNCHANGED <<appVars, adminVars, chatVars, clock>>
    /\ UNCHANGED <<uploadVars, authVars>>
    /\ UNCHANGED demoVars
    /\ UNCHANGED refVars

\* handleSendMessage after queryDocument resolved.
QueryResolved(r, response) ==
    /\ BagIn(r, chatReqs) /\ r.kind = "query"
    /\ chatReqs' = chatReqs (-) One(r)
    /\ IF r.live
       THEN /\ messages' = Append(messages, AssistantMessage(response))
            /\ loading' = FALSE
       ELSE UNCHANGED <<messages, loading>>
    /\ chatSessions' = WithExchange(chatSessions, r.sessionId,
                                    UserMessage(r.text), AssistantMessage(response))
    /\ notice' = None
    /\ UNCHANGED <<currentView, activeDocument, activeSessionId, adminVars,
                   inputMessage, hasDocument, clock>>
    /\ UNCHANGED <<uploadVars, authVars>>
    /\ UNCHANGED demoVars
    /\ UNCHANGED refVars

\* handleSendMessage after queryDocument threw.
QueryRejected(r) ==
    /\ BagIn(r, chatReqs) /\ r.kind = "query"
    /\ chatReqs' = chatReqs (-) One(r)
    /\ IF r.live
       THEN /\ messages' = Append(messages, ErrorMessage)
            /\ loading' = FALSE
       ELSE UNCHANGED <<messages, loading>>
    /\ notice' = None
    /\ UNCHANGED <<appVars, adminVars, inputMessage, hasDocument, clock>>
    /\ UNCHANGED <<uploadVars, authVars>>
    /\ UNCHANGED demoVars
    /\ UNCHANGED refVars

\* handleNewChat, and the effect on [activeSessionId] that follows. The clock
\* is read twice: Date.now() for the session id, at `now`, and new Date()
\* for createdAt, at `later`, when the updater of setChatSessions runs.
HandleNewChat(now, later) ==
    /\ ChatMounted
    /\ Len(chatSessions) < MaxSessions
    /\ now <= later
    /\ clock' = later
    /\ activeSessionId' = SessionIdAt(now)
    /\ SessionEffect(SessionIdAt(now), <<BOT_GREETING>>, chatReqs)
    /\ chatSessions' =
          WithNewSession(chatSessions,
                         [sessionId |-> SessionIdAt(now), createdAt |-> later,
                          messages |-> <<BOT_GREETING>>])
    /\ notice' = None
    /\ UNCHANGED <<currentView, activeDocument, adminVars, inputMessage,
                   loading, hasDocument>>
    /\ UNCHANGED <<uploadVars, authVars>>
    /\ UNCHANGED demoVars
    /\ UNCHANGED refVars

\* handleSelectChat, and the effect on [activeSessionId] that follows.
HandleSelectChat(sessionId) ==
    /\ ChatMounted
    /\ FindIndex(chatSessions, sessionId) # 0
    /\ activeSessionId' = sessionId
    /\ SessionEffect(sessionId, messages, chatReqs)
    /\ notice' = None
    /\ UNCHANGED <<currentView, activeDocument, chatSessions, adminVars,
                   inputMessage, loading, hasDocument, clock>>
    /\ UNCHANGED <<uploadVars, authVars>>
    /\ UNCHANGED demoVars
    /\ UNCHANGED refVars

\* loadChatHistory after getChatHistory resolved; the clock is read, at
\* `now`, only for a session that is not in the list.
HistoryResolved(r, resp, now) ==
    /\ BagIn(r, chatReqs) /\ r.kind = "history"
    /\ clock' = IF FindIndex(chatSessions, r.sessionId) = 0 THEN now ELSE clock
    /\ chatReqs' = chatReqs (-) One(r)
    /\ messages' = IF r.live THEN LoadedMessages(resp) ELSE messages
    /\ chatSessions' = WithHistory(chatSessions, r.sessionId,
                                   LoadedMessages(resp), now)
    /\ notice' = None
    /\ UNCHANGED <<currentView, activeDocument, activeSessionId, adminVars,
                   inputMessage, loading, hasDocument>>
    /\ UNCHANGED <<uploadVars, authVars>>
    /\ UNCHANGED demoVars
    /\ UNCHANGED refVars

\* loadChatHistory after getChatHistory threw.
HistoryRejected(r) ==
    /\ BagIn(r, chatReqs) /\ r.kind = "history"
    /\ chatReqs' = chatReqs (-) One(r)
    /\ messages' = IF r.live THEN <<BOT_GREETING>> ELSE messages
    /\ notice' = None
    /\ UNCHANGED <<appVars, adminVars, inputMessage, loading, hasDocument, clock>>
    /\ UNCHANGED <<uploadVars, authVars>>
    /\ UNCHANGED demoVars
    /\ UNCHANGED refVars

\* handleClearAllChats up to its await; `confirmed` is window.confirm's answer.
HandleClearAllChats(confirmed) ==
    /\ ChatMounted
    /\ IF confirmed
       THEN /\ BagCardinality(chatReqs) < MaxChatReqs
            /\ chatReqs' = chatReqs (+) One(ChatReq("clearAll", Null, <<>>))
            /\ notice' = None
       ELSE /\ notice' = ClearReturned
            /\ UNCHANGED chatReqs
    /\ UNCHANGED <<appVars, adminVars, messages, inputMessage, loading,
                   hasDocument, clock>>
    /\ UNCHANGED <<uploadVars, authVars>>
    /\ UNCHANGED demoVars
    /\ UNCHANGED refVars

\* handleClearAllChats after clearAllChatHistory resolved, and the effect on
\* [activeSessionId] of the mounted chat interface.
ClearAllResolved(r) ==
    /\ BagIn(r, chatReqs) /\ r.kind = "clearAll"
    /\ chatSessions' = <<>>
    /\ activeSessionId' = Null
    /\ SessionEffect(IF ChatMounted THEN Null ELSE activeSessionId,
                     IF r.live THEN <<>> ELSE messages,
                     chatReqs (-) One(r))
    /\ notice' = None
    /\ UNCHANGED <<currentView, activeDocument, adminVars, inputMessage,
                   loading, hasDocument, clock>>
    /\ UNCHANGED <<uploadVars, authVars>>
    /\ UNCHANGED demoVars
    /\ UNCHANGED refVars

\* The catch of handleClearAllChats, were it to reset the local state too.
ClearAllRejectedResets(r) ==
    /\ BagIn(r, chatReqs) /\ r.kind = "clearAll"
    /\ chatReqs' = chatReqs (-) One(r)
    /\ chatSessions' = <<>>
    /\ activeSessionId' = Null
    /\ messages' = <<>>
    /\ notice' = ClearAlert
    /\ UNCHANGED <<currentView, activeDocument, adminVars, inputMessage,
                   loading, hasDocument, clock>>
    /\ UNCHANGED <<uploadVars, authVars>>
    /\ UNCHANGED demoVars
    /\ UNCHANGED refVars

\* handleClearAllChats after clearAllChatHistory threw: an alert.
ClearAllRejected(r) ==
    /\ BagIn(r, chatReqs) /\ r.kind = "clearAll"
    /\ chatReqs' = chatReqs (-) One(r)
    /\ notice' = ClearAlert
    /\ UNCHANGED <<appVars, adminVars, messages, inputMessage, loading,
                   hasDocument, clock>>
    /\ UNCHANGED <<uploadVars, authVars>>
    /\ UNCHANGED demoVars
    /\ UNCHANGED refVars

----------------------------------------------------------------------------
(* App.jsx: navigation. The view left is unmounted and loses its state,    *)
(* the view entered is mounted and runs its effects.                       *)

\* handleShowAdmin. AdminDashboard's effects call loadUploadedFiles twice
\* when demo mode is off: the one on [] and the one on [isDemoMode, ..],
\* which also resets the demo state and removes the stored flag. When demo
\* mode is on, the effect on [isDemoMode, ..] sees the initial demoIngested,
\* false, whatever the flag read by the effect before it, and starts the
\* ingestion.
HandleShowAdmin ==
    /\ ChatMounted
    /\ currentView' = "admin"
    /\ messages' = <<>>
    /\ inputMessage' = <<>>
    /\ loading' = FALSE
    /\ hasDocument' = FALSE
    /\ chatReqs' = Orphaned(chatReqs)
    /\ DemoRuns + 2 <= MaxAdminReqs
    /\ uploadedFiles' = <<>>
    /\ filesGen' = NewArray(adminReqs)
    /\ publishedRef' = StillHeld(publishedRef, adminReqs, -1)
    /\ IF isDemoMode
       THEN /\ adminReqs' = adminReqs (+) One(ListReq) (+) One(DemoTriggerReq(1, TRUE))
            /\ demoIngestState' = "processing"
            /\ demoIngested' = (localStorage["demoFilesIngested"] = TrueText)
            /\ UNCHANGED localStorage
       ELSE /\ adminReqs' = adminReqs (+) One(ListReq) (+) One(ListReq)
            /\ demoIngestState' = NoStatus
            /\ demoIngested' = FALSE
            /\ localStorage' = [localStorage EXCEPT !["demoFilesIngested"] = Null]
    /\ notice' = None
    /\ UNCHANGED <<activeDocument, chatSessions, activeSessionId, clock>>
    /\ UNCHANGED <<uploadVars, user, isLoading, token, authReqs, loginLoading,
                   loginError, isDemoMode, demoTimers>>

\* handleBackToChat. ChatInterface starts with no messages; its effect on
\* [activeDocument] runs first, the one on [activeSessionId] second.
HandleBackToChat ==
    /\ AdminMounted
    /\ currentView' = "chat"
    /\ uploadedFiles' = <<>>
    /\ adminReqs' = Orphaned(adminReqs)
    /\ filesGen' = NewArray(adminReqs')
    /\ publishedRef' = StillHeld(publishedRef, adminReqs', -1)
    /\ inputMessage' = <<>>
    /\ loading' = FALSE
    /\ hasDocument' = Truthy(activeDocument)
    /\ IF activeSessionId = Null
       THEN /\ messages' = <<>>
            /\ UNCHANGED chatReqs
       ELSE /\ BagCardinality(chatReqs) < MaxChatReqs
            /\ messages' = IF Truthy(activeDocument)
                           THEN <<BOT_GREETING>> ELSE <<>>
            /\ chatReqs' = chatReqs (+) One(ChatReq("history", activeSessionId, <<>>))
    /\ notice' = None
    /\ UNCHANGED <<activeDocument, chatSessions, activeSessionId, clock>>
    /\ uploadProgress' = NoEntries
    /\ monitors' = [m \in DOMAIN monitors |-> [monitors[m] EXCEPT !.live = FALSE]]
    /\ graceTimers' = Orphaned(graceTimers)
    /\ UNCHANGED authVars
    /\ demoIngested' = FALSE
    /\ demoIngestState' = NoStatus
    /\ demoTimers' = Orphaned(demoTimers)
    /\ UNCHANGED isDemoMode

----------------------------------------------------------------------------
(* App.jsx, Login and api-service.js: start, login and logout              *)

\* The session check, were its catch to clear the user only.
CheckSessionKeepsStorage ==
    /\ isLoading
    /\ isLoading' = FALSE
    /\ notice' = None
    /\ LET storedUser == localStorage["user"]
           stored == localStorage["access_token"]
           Caught(cleared) ==
                     /\ localStorage' = WithDemoModeStored(localStorage, isDemoMode)
                     /\ user' = Null
                     /\ UNCHANGED <<chatSessions, activeSessionId, clock, chatVars>>
           Mounted(sessions, sessionId, read) ==
                  /\ user' = JsonParse(storedUser)
                  /\ localStorage' = WithDemoModeStored(localStorage, isDemoMode)
                  /\ chatSessions' = sessions
                  /\ activeSessionId' = sessionId
                  /\ clock' = read
                  /\ BagCardinality(chatReqs) < MaxChatReqs
                  /\ chatReqs' = chatReqs (+) One(ChatReq("history", sessionId, <<>>))
                  /\ hasDocument' = Truthy(activeDocument)
                  /\ messages' = IF Truthy(activeDocument)
                                 THEN <<BOT_GREETING>> ELSE <<>>
                  /\ UNCHANGED <<inputMessage, loading>>
       IN  IF ~(Truthy(storedUser) /\ Truthy(stored))
           THEN /\ localStorage' = WithDemoModeStored(localStorage, isDemoMode)
                /\ UNCHANGED <<user, chatSessions, activeSessionId, clock, chatVars>>
           ELSE IF ParseThrows(storedUser) \/ "getChatSessions" \notin ApiMethods
           THEN Caught(WithDemoModeStored(EmptyStorage, isDemoMode))
           ELSE \E sessionsResp \in SessionListAnswers :
                  IF sessionsResp.kind = "rejected"
                  THEN Caught(EmptyStorage)
                  ELSE IF /\ "sessions" \in DOMAIN sessionsResp.body
                          /\ Len(sessionsResp.body.sessions) > 0
                  THEN Mounted(sessionsResp.body.sessions,
                               sessionsResp.body.sessions[1].sessionId, clock)
                  ELSE \E now \in clock..MaxClock : \E later \in now..MaxClock :
                         Mounted(<<[sessionId |-> SessionIdAt(now),
                                    createdAt |-> later,
                                    messages |-> <<BOT_GREETING>>]>>,
                                 SessionIdAt(now), later)
    /\ UNCHANGED <<currentView, activeDocument, adminVars, uploadVars, token,
                   authReqs, loginLoading, loginError>>
    /\ UNCHANGED demoVars
    /\ UNCHANGED refVars

\* The effect of App on []: checkSessionAndLoadChats, and the effect of
\* DemoModeProvider, App's parent, which runs after App's and stores
\* isDemoMode. The block runs when the stored identity and the stored token
\* are both truthy (`storedUser && token`). JSON.parse may throw, and the
\* call of apiService.getChatSessions, which the ApiService class does not
\* define, throws a TypeError before anything is awaited: the catch clears
\* localStorage and the user, the finally ends the loading screen. Were the
\* method there, the handler would go on with the answer under the loading
\* screen, after the effect of DemoModeProvider: a rejection reaches the
\* same catch, whose localStorage.clear() then removes the stored isDemoMode
\* as well, with no effect to store it again; sessions are adopted and the
\* first made active, and without sessions one greeting session is made,
\* the clock read for its id and again for createdAt; ChatInterface is then
\* mounted with its two effects. The setters are batched, so the first
\* render after the effect sees the last value of each.
CheckSessionAndLoadChats ==
    /\ isLoading
    /\ isLoading' = FALSE
    /\ notice' = None
    /\ LET storedUser == localStorage["user"]
           stored == localStorage["access_token"]
           Caught(cleared) ==
                     /\ localStorage' = cleared
                     /\ user' = Null
                     /\ UNCHANGED <<chatSessions, activeSessionId, clock, chatVars>>
           Mounted(sessions, sessionId, read) ==
                  /\ user' = JsonParse(storedUser)
                  /\ localStorage' = WithDemoModeStored(localStorage, isDemoMode)
                  /\ chatSessions' = sessions
                  /\ activeSessionId' = sessionId
                  /\ clock' = read
                  /\ BagCardinality(chatReqs) < MaxChatReqs
                  /\ chatReqs' = chatReqs (+) One(ChatReq("history", sessionId, <<>>))
                  /\ hasDocument' = Truthy(activeDocument)
                  /\ messages' = IF Truthy(activeDocument)
                                 THEN <<BOT_GREETING>> ELSE <<>>
                  /\ UNCHANGED <<inputMessage, loading>>
       IN  IF ~(Truthy(storedUser) /\ Truthy(stored))
           THEN /\ localStorage' = WithDemoModeStored(localStorage, isDemoMode)
                /\ UNCHANGED <<user, chatSessions, activeSessionId, clock, chatVars>>
           ELSE IF ParseThrows(storedUser) \/ "getChatSessions" \notin ApiMethods
           THEN Caught(WithDemoModeStored(EmptyStorage, isDemoMode))
           ELSE \E sessionsResp \in SessionListAnswers :
                  IF sessionsResp.kind = "rejected"
                  THEN Caught(EmptyStorage)
                  ELSE IF /\ "sessions" \in DOMAIN sessionsResp.body
                          /\ Len(sessionsResp.body.sessions) > 0
                  THEN Mounted(sessionsResp.body.sessions,
                               sessionsResp.body.sessions[1].sessionId, clock)
                  ELSE \E now \in clock..MaxClock : \E later \in now..MaxClock :
                         Mounted(<<[sessionId |-> SessionIdAt(now),
                                    createdAt |-> later,
                                    messages |-> <<BOT_GREETING>>]>>,
                                 SessionIdAt(now), later)
    /\ UNCHANGED <<currentView, activeDocument, adminVars, uploadVars, token,
                   authReqs, loginLoading, loginError>>
    /\ UNCHANGED demoVars
    /\ UNCHANGED refVars

\* Login's handleSubmit up to the fetch of apiService.login. The form is
\* disabled while a login is under way.
LoginSubmit ==
    /\ ~isLoading /\ user = Null
    /\ ~loginLoading
    /\ BagCardinality(authReqs) < MaxAuthReqs
    /\ loginLoading' = TRUE
    /\ loginError' = NoError
    /\ authReqs' = authReqs (+) One([kind |-> "login"])
    /\ notice' = None
    /\ UNCHANGED <<appVars, adminVars, uploadVars, chatVars, clock,
                   user, isLoading, localStorage, token>>
    /\ UNCHANGED demoVars
    /\ UNCHANGED refVars

\* The rest of login, were the token stored without being kept in
\* apiService.
LoginSettledTokenNotKept(r, outcome) ==
    /\ BagIn(r, authReqs) /\ r.kind = "login"
    /\ authReqs' = authReqs (-) One(r)
    /\ loginLoading' = FALSE
    /\ IF outcome.kind = "accepted"
       THEN /\ UNCHANGED token
            /\ localStorage' =
                  [localStorage EXCEPT !["access_token"] = outcome.access_token,
                                       !["user"] = Stringified(outcome.user)]
            /\ user' = outcome.user
            /\ currentView' = "chat"
            /\ UNCHANGED loginError
            /\ hasDocument' = Truthy(activeDocument)
            /\ IF activeSessionId = Null
               THEN /\ messages' = <<>>
                    /\ UNCHANGED chatReqs
               ELSE /\ BagCardinality(chatReqs) < MaxChatReqs
                    /\ messages' = IF Truthy(activeDocument)
                                   THEN <<BOT_GREETING>> ELSE <<>>
                    /\ chatReqs' = chatReqs (+)
                                     One(ChatReq("history", activeSessionId, <<>>))
       ELSE /\ loginError' = InvalidCredentials
            /\ UNCHANGED <<token, localStorage, user, currentView,
                           hasDocument, messages, chatReqs>>
    /\ notice' = None
    /\ UNCHANGED <<activeDocument, chatSessions, activeSessionId, adminVars,
                   uploadVars, inputMessage, loading, clock, isLoading>>
    /\ UNCHANGED demoVars
    /\ UNCHANGED refVars

\* The rest of apiService.login and of handleSubmit. Accepted: the token is
\* kept and stored with the identity, then App's handleLogin runs and
\* ChatInterface is mounted with its two effects. Otherwise login throws
\* and handleSubmit shows its error.
LoginSettled(r, outcome) ==
    /\ BagIn(r, authReqs) /\ r.kind = "login"
    /\ authReqs' = authReqs (-) One(r)
    /\ loginLoading' = FALSE
    /\ IF outcome.kind = "accepted"
       THEN /\ token' = outcome.access_token
            /\ localStorage' =
                  [localStorage EXCEPT !["access_token"] = outcome.access_token,
                                       !["user"] = Stringified(outcome.user)]
            /\ user' = outcome.user
            /\ currentView' = "chat"
            /\ UNCHANGED loginError
            /\ hasDocument' = Truthy(activeDocument)
            /\ IF activeSessionId = Null
               THEN /\ messages' = <<>>
                    /\ UNCHANGED chatReqs
               ELSE /\ BagCardinality(chatReqs) < MaxChatReqs
                    /\ messages' = IF Truthy(activeDocument)
                                   THEN <<BOT_GREETING>> ELSE <<>>
                    /\ chatReqs' = chatReqs (+)
                                     One(ChatReq("history", activeSessionId, <<>>))
       ELSE /\ loginError' = InvalidCredentials
            /\ UNCHANGED <<token, localStorage, user, currentView,
                           hasDocument, messages, chatReqs>>
    /\ notice' = None
    /\ UNCHANGED <<activeDocument, chatSessions, activeSessionId, adminVars,
                   uploadVars, inputMessage, loading, clock, isLoading>>
    /\ UNCHANGED demoVars
    /\ UNCHANGED refVars

\* handleLogout, were it to leave the view as it is.
OnLogoutKeepsView ==
    /\ user' = Null
    /\ activeDocument' = Null
    /\ chatSessions' = <<>>
    /\ activeSessionId' = Null
    /\ UNCHANGED currentView
    /\ messages' = <<>>
    /\ inputMessage' = <<>>
    /\ loading' = FALSE
    /\ hasDocument' = FALSE
    /\ chatReqs' = Orphaned(chatReqs)
    /\ uploadedFiles' = <<>>
    /\ adminReqs' = Orphaned(adminReqs)
    /\ filesGen' = NewArray(adminReqs')
    /\ publishedRef' = NoRef
    /\ uploadProgress' = NoEntries
    /\ monitors' = [m \in DOMAIN monitors |-> [monitors[m] EXCEPT !.live = FALSE]]
    /\ graceTimers' = Orphaned(graceTimers)
    /\ loginLoading' = IF user = Null THEN loginLoading ELSE FALSE
    /\ loginError' = IF user = Null THEN loginError ELSE NoError
    /\ demoIngested' = FALSE
    /\ demoIngestState' = NoStatus
    /\ demoTimers' = Orphaned(demoTimers)
    /\ UNCHANGED isDemoMode

\* App's handleLogout, and what the render after it does: the view that
\* was mounted is unmounted and Login is mounted; a Login that is already
\* shown keeps its state.
OnLogout ==
    /\ user' = Null
    /\ activeDocument' = Null
    /\ chatSessions' = <<>>
    /\ activeSessionId' = Null
    /\ currentView' = "chat"
    /\ messages' = <<>>
    /\ inputMessage' = <<>>
    /\ loading' = FALSE
    /\ hasDocument' = FALSE
    /\ chatReqs' = Orphaned(chatReqs)
    /\ uploadedFiles' = <<>>
    /\ adminReqs' = Orphaned(adminReqs)
    /\ filesGen' = NewArray(adminReqs')
    /\ publishedRef' = NoRef
    /\ uploadProgress' = NoEntries
    /\ monitors' = [m \in DOMAIN monitors |-> [monitors[m] EXCEPT !.live = FALSE]]
    /\ graceTimers' = Orphaned(graceTimers)
    /\ loginLoading' = IF user = Null THEN loginLoading ELSE FALSE
    /\ loginError' = IF user = Null THEN loginError ELSE NoError
    /\ demoIngested' = FALSE
    /\ demoIngestState' = NoStatus
    /\ demoTimers' = Orphaned(demoTimers)
    /\ UNCHANGED isDemoMode

\* The finally of apiService.logout.
ForgetToken ==
    /\ token' = Null
    /\ localStorage' = [localStorage EXCEPT !["access_token"] = Null,
                                            !["user"] = Null]

\* handleLogout of either view up to the fetch of apiService.logout;
\* without a token nothing is fetched and the logout completes at once.
HandleLogout ==
    /\ Authenticated
    /\ IF Truthy(token)
       THEN /\ BagCardinality(authReqs) < MaxAuthReqs
            /\ authReqs' = authReqs (+) One([kind |-> "logout"])
            /\ UNCHANGED <<appVars, adminVars, uploadVars, chatVars, user,
                           localStorage, token, loginLoading, loginError,
                           demoVars, refVars>>
       ELSE /\ ForgetToken
            /\ OnLogout
            /\ UNCHANGED authReqs
    /\ notice' = None
    /\ UNCHANGED <<clock, isLoading>>

\* The rest of logout, were the cleanup in the try and not in a finally.
LogoutSettledWithoutFinally(r, outcome) ==
    /\ BagIn(r, authReqs) /\ r.kind = "logout"
    /\ authReqs' = authReqs (-) One(r)
    /\ IF outcome = "threw" THEN UNCHANGED <<token, localStorage>>
       ELSE ForgetToken
    /\ OnLogout
    /\ notice' = None
    /\ UNCHANGED <<clock, isLoading>>

\* The rest of apiService.logout and of handleLogout: the finally forgets
\* the token, then onLogout runs, from the try or from the catch.
LogoutSettled(r, outcome) ==
    /\ BagIn(r, authReqs) /\ r.kind = "logout"
    /\ authReqs' = authReqs (-) One(r)
    /\ ForgetToken
    /\ OnLogout
    /\ notice' = None
    /\ UNCHANGED <<clock, isLoading>>

----------------------------------------------------------------------------
(* The admin view as first mounted after a login: both effects of          *)
(* AdminDashboard have called loadUploadedFiles.                           *)

InitRegistry ==
    /\ currentView = "admin"
    /\ activeDocument = Null
    /\ chatSessions = <<>>
    /\ activeSessionId = Null
    /\ uploadedFiles = <<>>
    /\ adminReqs = One(ListReq) (+) One(ListReq)
    /\ messages = <<>>
    /\ inputMessage = <<>>
    /\ loading = FALSE
    /\ hasDocument = FALSE
    /\ chatReqs = EmptyBag
    /\ clock = 1
    /\ notice = None
    /\ uploadProgress = NoEntries
    /\ monitors = <<>>
    /\ graceTimers = EmptyBag
    /\ user = SomeUser
    /\ isLoading = FALSE
    /\ localStorage = StorageAfterLogin
    /\ token = AccessToken
    /\ authReqs = EmptyBag
    /\ loginLoading = FALSE
    /\ loginError = NoError
    /\ isDemoMode = FALSE
    /\ demoIngested = FALSE
    /\ demoIngestState = NoStatus
    /\ demoTimers = EmptyBag
    /\ filesGen = 0
    /\ publishedRef = NoRef

\* The application as loaded in the browser: App shows the loading screen,
\* apiService was constructed with the stored token, DemoModeProvider read
\* the stored flag, and the effect that checks the session has not run yet.
InitBoot ==
    /\ currentView = "chat"
    /\ activeDocument = Null
    /\ chatSessions = <<>>
    /\ activeSessionId = Null
    /\ uploadedFiles = <<>>
    /\ adminReqs = EmptyBag
    /\ messages = <<>>
    /\ inputMessage = <<>>
    /\ loading = FALSE
    /\ hasDocument = FALSE
    /\ chatReqs = EmptyBag
    /\ clock = 1
    /\ notice = None
    /\ uploadProgress = NoEntries
    /\ monitors = <<>>
    /\ graceTimers = EmptyBag
    /\ user = Null
    /\ isLoading = TRUE
    /\ localStorage \in StoredAtStart
    /\ token = localStorage["access_token"]
    /\ authReqs = EmptyBag
    /\ loginLoading = FALSE
    /\ loginError = NoError
    /\ isDemoMode = (localStorage["isDemoMode"] = TrueText)
    /\ demoIngested = FALSE
    /\ demoIngestState = NoStatus
    /\ demoTimers = EmptyBag
    /\ filesGen = 0
    /\ publishedRef = NoRef

\* The active entries a refresh can have published.
PublishedDocuments ==
    { FindActive(DeriveFiles(docs)) : docs \in BackendLists } \ {Undefined}

\* The chat view as mounted by a login or by handleBackToChat before any
\* session exists: the registry may have published a document, and a refresh
\* of the admin view left may still be in flight. Demo mode is on, so that
\* the preset buttons exist; with demo mode off the chat view does what it
\* does here without those buttons.
InitChatMounted ==
    /\ currentView = "chat"
    /\ activeDocument \in {Null} \cup PublishedDocuments
    /\ chatSessions = <<>>
    /\ activeSessionId = Null
    /\ uploadedFiles = <<>>
    /\ adminReqs \in {EmptyBag, Orphaned(One(ListReq))}
    /\ messages = <<>>
    /\ inputMessage = <<>>
    /\ loading = FALSE
    /\ hasDocument = Truthy(activeDocument)
    /\ chatReqs = EmptyBag
    /\ clock = 1
    /\ notice = None
    /\ uploadProgress = NoEntries
    /\ monitors = <<>>
    /\ graceTimers = EmptyBag
    /\ user = SomeUser
    /\ isLoading = FALSE
    /\ isDemoMode = TRUE
    /\ localStorage = WithDemoModeStored(StorageAfterLogin, isDemoMode)
    /\ token = AccessToken
    /\ authReqs = EmptyBag
    /\ loginLoading = FALSE
    /\ loginError = NoError
    /\ demoIngested = FALSE
    /\ demoIngestState = NoStatus
    /\ demoTimers = EmptyBag
    /\ filesGen = 0
    /\ publishedRef = NoRef

ListStep ==
    \/ \E r \in BagToSet(adminReqs), docs \in BackendLists : ListResolved(r, docs)
    \/ \E r \in BagToSet(adminReqs) : ListRejected(r)

\* The clicks on the rows the table renders, and how their requests end.
RegistryStep ==
    \/ \E i \in 1..Len(uploadedFiles) : HandleSetActive(i)
    \/ \E r \in BagToSet(adminReqs) : SetActiveResolved(r)
    \/ \E r \in BagToSet(adminReqs) : SetActiveRejected(r)
    \/ \E i \in 1..Len(uploadedFiles) : HandleToggleIngested(i)
    \/ \E r \in BagToSet(adminReqs) : ToggleResolved(r)
    \/ \E r \in BagToSet(adminReqs) : ToggleRejected(r)

ChatStep ==
    \/ \E t \in Texts : HandleInputChange(t)
    \/ \E i \in 1..MaxPresets : HandlePresetClick(i)
    \/ HandleKeyPress
    \/ HandleSendClick
    \/ \E r \in BagToSet(chatReqs), a \in QueryResponses : QueryResolved(r, a)
    \/ \E r \in BagToSet(chatReqs) : QueryRejected(r)
    \/ \E now \in clock..MaxClock :
          \E later \in now..MaxClock : HandleNewChat(now, later)
    \/ \E i \in 1..Len(chatSessions) : HandleSelectChat(chatSessions[i].sessionId)
    \/ \E r \in BagToSet(chatReqs), h \in HistoryResponses, now \in clock..MaxClock :
          HistoryResolved(r, h, now)
    \/ \E r \in BagToSet(chatReqs) : HistoryRejected(r)
    \/ \E c \in BOOLEAN : HandleClearAllChats(c)
    \/ \E r \in BagToSet(chatReqs) : ClearAllResolved(r)
    \/ \E r \in BagToSet(chatReqs) : ClearAllRejected(r)

NavStep ==
    \/ HandleShowAdmin
    \/ HandleBackToChat

UploadStep ==
    \/ \E file \in UploadFiles : HandleFileUpload(file)
    \/ \E r \in BagToSet(adminReqs), p \in UploadProgressValues :
          UploadProgressed(r, p)
    \/ \E r \in BagToSet(adminReqs), xhr \in XhrOutcomes : UploadSettled(r, xhr)
    \/ \E m \in 1..MaxUploads : PollTick(m)
    \/ \E r \in BagToSet(adminReqs), status \in StatusResponses :
          StatusResolved(r, status)
    \/ \E r \in BagToSet(adminReqs) : StatusRejected(r)
    \/ \E t \in BagToSet(graceTimers) : GraceTimeout(t)

DemoStep ==
    \/ \E checked \in BOOLEAN : SetIsDemoMode(checked)
    \/ \E r \in BagToSet(adminReqs) : DemoTriggerResolved(r)
    \/ \E r \in BagToSet(adminReqs) : DemoTriggerRejected(r)
    \/ \E r \in BagToSet(adminReqs), statusResp \in StatusResponses :
          DemoStatusResolved(r, statusResp)
    \/ \E r \in BagToSet(adminReqs), error \in GetStatusErrors :
          DemoStatusRejected(r, error)
    \/ \E t \in BagToSet(demoTimers) : DemoPollTimeout(t)

BootStep ==
    \/ CheckSessionAndLoadChats
    \/ LoginSubmit
    \/ \E r \in BagToSet(authReqs), outcome \in LoginOutcomes : LoginSettled(r, outcome)
    \/ HandleLogout
    \/ \E r \in BagToSet(authReqs), outcome \in LogoutOutcomes :
          LogoutSettled(r, outcome)

\* The sessions of the chat view: New Chat, selecting, and the history loads.
SessionStep ==
    \/ \E now \in clock..MaxClock :
          \E later \in now..MaxClock : HandleNewChat(now, later)
    \/ \E i \in 1..Len(chatSessions) : HandleSelectChat(chatSessions[i].sessionId)
    \/ \E r \in BagToSet(chatReqs), h \in HistoryResponses, now \in clock..MaxClock :
          HistoryResolved(r, h, now)
    \/ \E r \in BagToSet(chatReqs) : HistoryRejected(r)

\* The document registry, in an admin view that stays mounted: the two
\* refreshes its mount started, and the clicks on its rows.
NextRegistry == ListStep \/ RegistryStep
SpecRegistry == InitRegistry /\ [][NextRegistry]_vars

\* The registry with handleSetActive called as a function of its index: by
\* the rows of the table, as in SpecRegistry, and with an index past the
\* end of the list, which no row of the table passes.
NextSetActive ==
    \/ NextRegistry
    \/ \E i \in (Len(uploadedFiles) + 1)..(MaxDocs + 1) : HandleSetActive(i)
SpecSetActive == InitRegistry /\ [][NextSetActive]_vars

\* The uploads of an admin view that stays mounted, and its refreshes.
NextUpload == UploadStep \/ ListStep
SpecUpload == InitRegistry /\ [][NextUpload]_vars

\* Demo mode in the admin view, leaving it for the chat and coming back,
\* and the refreshes of the list.
NextDemo == DemoStep \/ NavStep \/ ListStep
SpecDemo == InitRegistry /\ [][NextDemo]_vars

\* One mounted chat interface, and the refreshes that resolve meanwhile.
NextChat == ChatStep \/ ListStep
SpecChat == InitChatMounted /\ [][NextChat]_vars

\* The application from its start in the browser: the session check, login
\* and logout, the navigation between the views and the sessions of the chat
\* view. The requests a demo ingestion makes stay in flight.
NextBoot == BootStep \/ NavStep \/ ListStep \/ SessionStep
SpecBoot == InitBoot /\ [][NextBoot]_vars

\* The whole application, from its start in the browser.
Next ==
    \/ BootStep
    \/ NavStep
    \/ ChatStep
    \/ ListStep
    \/ RegistryStep
    \/ UploadStep
    \/ DemoStep
Spec == InitBoot /\ [][Next]_vars


----------------------------------------------------------------------------
(* The registry: AdminDashboard.jsx, checked under SpecRegistry.           *)

\* C1: whatever refreshes, setActive and toggleIngested calls were made and
\* however their requests ended, at most one document of the list has
\* isActive set.
C1_AtMostOneActive == ActiveCount(uploadedFiles) <= 1

\* A list in which setActive has marked a document that is still processing
\* and toggleIngested has cleared the ingested flag of a completed one.
C1_Witness ==
    /\ Len(uploadedFiles) = 2
    /\ uploadedFiles[1].processing_status = "processing"
    /\ uploadedFiles[1].isActive
    /\ uploadedFiles[2].processing_status = "completed"
    /\ ~uploadedFiles[2].ingested
    /\ ActiveCount(uploadedFiles) = 1

\* C2, as stated: a toggleIngested of document B whose request succeeded
\* leaves B active and every other document inactive, whatever B's ingested
\* value was, and publishes B.
C2_ToggleLeavesTargetActive ==
    [][\A r \in BagToSet(adminReqs) :
         r.kind = "toggle" /\ r.live /\ ToggleResolved(r) =>
           /\ uploadedFiles'[r.idx].isActive
           /\ \A i \in 1..Len(uploadedFiles') :
                i # r.idx => ~uploadedFiles'[i].isActive
           /\ activeDocument' = uploadedFiles'[r.idx]]_vars

\* C2, amended: a toggleIngested of document B whose request succeeded
\* leaves B with its ingested flag inverted and with isActive equal to the
\* new flag, leaves every other document inactive, and publishes B when the
\* new flag is set and undefined when it is not.
C2_ToggleFollowsIngested ==
    [][\A r \in BagToSet(adminReqs) :
         r.kind = "toggle" /\ r.live /\ ToggleResolved(r) =>
           LET newStatus == ~r.files[r.idx].ingested
           IN  /\ Len(uploadedFiles') = Len(r.files)
               /\ uploadedFiles'[r.idx].ingested = newStatus
               /\ uploadedFiles'[r.idx].isActive = newStatus
               /\ \A i \in 1..Len(uploadedFiles') :
                    i # r.idx => ~uploadedFiles'[i].isActive
               /\ activeDocument' = IF newStatus THEN uploadedFiles'[r.idx]
                                                 ELSE Undefined]_vars

\* A document that was not ingested has been toggled: it is ingested, active
\* and published, next to a completed document that is not active.
C2_Witness ==
    /\ Len(uploadedFiles) = 2
    /\ \E i \in 1..2 :
         /\ uploadedFiles[i].processing_status = "processing"
         /\ uploadedFiles[i].ingested
         /\ uploadedFiles[i].isActive
         /\ activeDocument = uploadedFiles[i]
         /\ uploadedFiles[3 - i].processing_status = "completed"
         /\ ~uploadedFiles[3 - i].isActive

\* The position of the last completed document of a list, 0 when there is
\* none.
LastCompleted(docs) ==
    LET completed == { i \in 1..Len(docs) :
                         docs[i].processing_status = "completed" }
    IN  IF completed = {} THEN 0
        ELSE CHOOSE i \in completed : \A j \in completed : j <= i

\* C3, as stated: a refresh marks active exactly the last document, in list
\* order, whose processing status is completed, however completed and other
\* documents are interleaved.
C3_RefreshMarksLastCompleted ==
    [][\A r \in BagToSet(adminReqs) : \A docs \in BackendLists :
         r.kind = "list" /\ r.live /\ ListResolved(r, docs) =>
           \A i \in 1..Len(docs) :
             uploadedFiles'[i].isActive <=> (i = LastCompleted(docs))]_vars

\* C4, as stated: after a refresh whose request succeeded the published
\* document is the one the refresh marked active, and null when it marked
\* none.
C4_RefreshPublishesActive ==
    [][\A r \in BagToSet(adminReqs) : \A docs \in BackendLists :
         r.kind = "list" /\ r.live /\ ListResolved(r, docs) =>
           activeDocument' =
             IF ActiveCount(uploadedFiles') = 0 THEN Null
             ELSE FindActive(uploadedFiles')]_vars

----------------------------------------------------------------------------
(* The chat session manager: ChatInterface.jsx, checked under SpecChat.    *)

\* The number of query requests the mounted chat interface is awaiting.
OutstandingQueries ==
    BagCardinality([r \in LiveQueries |-> CopiesIn(r, chatReqs)])

\* The number of history requests in flight for a session.
HistoryLoads(sessionId) ==
    BagCardinality([r \in { q \in BagToSet(chatReqs) :
                              q.kind = "history" /\ q.sessionId = sessionId }
                     |-> CopiesIn(r, chatReqs)])

\* The texts handleSendMessage is called with: what the input holds when
\* Enter is pressed, and the preset queries.
SendTexts == Texts \cup { PresetQueries[i] : i \in 1..Len(PresetQueries) }

\* C5: a sendMessage whose text is empty or whitespace only issues no
\* request and leaves the messages, the sessions, the input text and the
\* loading flag as they are.
C5_BlankSendIsNoOp ==
    [][\A text \in SendTexts :
         Trim(text) = <<>> /\ HandleSendMessage(text) =>
           UNCHANGED <<messages, chatSessions, inputMessage, loading,
                       chatReqs>>]_vars

\* A send of the whitespace typed into the input has returned at once,
\* though a document is active and nothing is awaited.
C5_Witness ==
    /\ notice = SendReturned
    /\ ~loading
    /\ hasDocument
    /\ inputMessage = <<" ">>
    /\ messages = <<BOT_GREETING>>

\* C6, as stated: a sendMessage with a text that is not blank, made while no
\* document is active, issues no request, leaves the messages as they are
\* and raises an alert.
C6_NoDocumentSendAlerts ==
    [][\A text \in SendTexts :
         Trim(text) # <<>> /\ ~Truthy(activeDocument)
             /\ HandleSendMessage(text) =>
           /\ UNCHANGED <<messages, chatReqs>>
           /\ notice' = SendAlert]_vars

\* C6, amended: a sendMessage with a text that is not blank, made while no
\* document is active, issues no request and leaves the messages as they
\* are; it raises an alert unless a send is being awaited, and then it
\* returns without one.
C6_NoDocumentSendAlertsUnlessLoading ==
    [][\A text \in SendTexts :
         Trim(text) # <<>> /\ ~Truthy(activeDocument)
             /\ HandleSendMessage(text) =>
           /\ UNCHANGED <<messages, chatSessions, chatReqs, loading>>
           /\ notice' = IF loading THEN SendReturned ELSE SendAlert]_vars

\* A send has raised the alert in a session that shows its greeting.
C6_Witness ==
    /\ notice = SendAlert
    /\ ~hasDocument
    /\ activeDocument = Null
    /\ activeSessionId # Null
    /\ messages = <<BOT_GREETING>>
    /\ chatReqs = EmptyBag

\* C7: the mounted chat interface awaits at most one query, and a
\* sendMessage made while one is awaited issues no request and appends no
\* message.
C7_OneOutstandingQuery ==
    /\ [](OutstandingQueries <= 1 /\ (loading <=> OutstandingQueries = 1))
    /\ [][\A text \in SendTexts :
            loading /\ HandleSendMessage(text) =>
              UNCHANGED <<messages, chatSessions, chatReqs, loading>>]_vars

\* A click on a preset query has returned at once: the answer to the
\* previous send is awaited, and a new session shows its greeting.
C7_Witness ==
    /\ notice = SendReturned
    /\ loading
    /\ OutstandingQueries = 1
    /\ isDemoMode
    /\ messages = <<BOT_GREETING>>

\* C8: an accepted send appends the user's message at once; when its query
\* resolves, exactly one assistant message is appended, the answer with its
\* confidence and source count on success and a message flagged as an error
\* on failure; nothing is raised, and loading is false again.
C8_SendAppendsUserThenOneReply ==
    [][/\ \A text \in SendTexts :
            Trim(text) # <<>> /\ ~loading /\ Truthy(activeDocument)
                /\ HandleSendMessage(text) =>
              /\ messages' = Append(messages, [role |-> "user", content |-> text])
              /\ loading'
       /\ \A r \in BagToSet(chatReqs) : \A response \in QueryResponses :
            r.kind = "query" /\ r.live /\ chatReqs' # chatReqs
                /\ QueryResolved(r, response) =>
              /\ messages' =
                   Append(messages,
                          [role |-> "assistant", content |-> response.answer,
                           confidence |-> response.confidence,
                           sourcesUsed |-> response.sources_used])
              /\ ~loading'
              /\ notice' = None
       /\ \A r \in BagToSet(chatReqs) :
            r.kind = "query" /\ r.live /\ chatReqs' # chatReqs
                /\ QueryRejected(r) =>
              /\ Len(messages') = Len(messages) + 1
              /\ SubSeq(messages', 1, Len(messages)) = messages
              /\ messages'[Len(messages')].role = "assistant"
              /\ "error" \in DOMAIN messages'[Len(messages')]
              /\ messages'[Len(messages')].error
              /\ ~loading'
              /\ notice' = None]_vars

\* The query of an accepted send has failed: the list ends with the user's
\* message and one error message, and nothing is awaited.
C8_Witness ==
    /\ Len(messages) = 3
    /\ messages[2] = UserMessage(PresetQueries[1])
    /\ messages[3] = ErrorMessage
    /\ ~loading
    /\ OutstandingQueries = 0

\* C9: newSession puts a session that holds exactly the greeting in front of
\* the sessions there were, whose order and content it leaves alone, and
\* makes it the active session.
C9_NewSessionInFront ==
    [][\A now \in 1..MaxClock, later \in 1..MaxClock :
         HandleNewChat(now, later) =>
           /\ Len(chatSessions') = Len(chatSessions) + 1
           /\ chatSessions'[1].messages = <<BOT_GREETING>>
           /\ \A i \in 1..Len(chatSessions) : chatSessions'[i + 1] = chatSessions[i]
           /\ activeSessionId' = chatSessions'[1].sessionId
           /\ messages' = <<BOT_GREETING>>]_vars

\* A new session stands, active and showing its greeting, in front of an
\* older session that holds an exchange.
C9_Witness ==
    /\ Len(chatSessions) = 2
    /\ chatSessions[1].messages = <<BOT_GREETING>>
    /\ activeSessionId = chatSessions[1].sessionId
    /\ chatSessions[2].sessionId # chatSessions[1].sessionId
    /\ Len(chatSessions[2].messages) = 3
    /\ messages = <<BOT_GREETING>>

\* C10: a history load that finds no history, or whose request fails, makes
\* the displayed list exactly the greeting; and once no history load of the
\* active session is in flight, the displayed list is not empty.
C10_HistoryNeverLeavesEmpty ==
    /\ [](activeSessionId # Null /\ HistoryLoads(activeSessionId) = 0
            => messages # <<>>)
    /\ [][\A r \in BagToSet(chatReqs) :
            r.kind = "history" /\ r.live /\ chatReqs' # chatReqs =>
              /\ \A resp \in HistoryResponses :
                   "history" \notin DOMAIN resp \/ resp.history = <<>> =>
                     \A now \in 1..MaxClock :
                       HistoryResolved(r, resp, now) =>
                         messages' = <<BOT_GREETING>>
              /\ HistoryRejected(r) => messages' = <<BOT_GREETING>>]_vars

\* The older of two sessions has been selected and its history load is over:
\* the list is the greeting.
C10_Witness ==
    /\ Len(chatSessions) = 2
    /\ chatSessions[1].sessionId # chatSessions[2].sessionId
    /\ activeSessionId = chatSessions[2].sessionId
    /\ HistoryLoads(activeSessionId) = 0
    /\ messages = <<BOT_GREETING>>


\* A session of the list whose messages came from the backend: a session
\* made by handleNewChat starts with the greeting, a history that starts with
\* a user's message can only have been loaded.
LoadedFromBackend(session) ==
    /\ session.messages # <<>>
    /\ session.messages[1].role = "user"

\* C11, as stated: selecting a session whose history was already loaded
\* issues no history request.
C11_LoadedSessionNotFetchedAgain ==
    [][\A i \in 1..Len(chatSessions) :
         LoadedFromBackend(chatSessions[i])
             /\ HandleSelectChat(chatSessions[i].sessionId) =>
           HistoryLoads(chatSessions[i].sessionId)' =
             HistoryLoads(chatSessions[i].sessionId)]_vars

\* C11, amended: selecting a session issues one history request for it
\* whenever the selection changes the active session, whether or not the
\* session's history was loaded before; only selecting the session that is
\* already active issues none.
C11_SelectFetchesUnlessActive ==
    [][\A i \in 1..Len(chatSessions) :
         HandleSelectChat(chatSessions[i].sessionId) =>
           LET id == chatSessions[i].sessionId
           IN  /\ activeSessionId' = id
               /\ chatReqs' =
                    IF id = activeSessionId THEN chatReqs
                    ELSE chatReqs (+) One([kind |-> "history", sessionId |-> id,
                                           text |-> <<>>, live |-> TRUE])]_vars

\* A session whose history was loaded has been selected again: a history
\* request for it is in flight once more, while the list displayed is still
\* the one of the session left.
C11_Witness ==
    /\ Len(chatSessions) = 2
    /\ LoadedFromBackend(chatSessions[2])
    /\ activeSessionId = chatSessions[2].sessionId
    /\ chatSessions[1].sessionId # chatSessions[2].sessionId
    /\ HistoryLoads(activeSessionId) = 1
    /\ messages = <<BOT_GREETING>>

\* C12: a confirmed clearAll whose request fails leaves the sessions, the
\* active session and the displayed messages as they are and raises an
\* alert; a clearAll that is not confirmed issues no request and changes
\* nothing.
C12_FailedClearAllKeepsState ==
    [][/\ \A r \in BagToSet(chatReqs) :
            r.kind = "clearAll" /\ r.live /\ chatReqs' # chatReqs
                /\ ClearAllRejected(r) =>
              /\ UNCHANGED <<chatSessions, activeSessionId, messages>>
              /\ notice' = ClearAlert
       /\ HandleClearAllChats(FALSE) =>
            UNCHANGED <<chatSessions, activeSessionId, messages, chatReqs,
                        inputMessage, loading, activeDocument>>]_vars

\* The alert of a failed clearAll is up while a session with an exchange is
\* still listed, active and displayed.
C12_Witness ==
    /\ notice = ClearAlert
    /\ Len(chatSessions) = 1
    /\ activeSessionId = chatSessions[1].sessionId
    /\ Len(chatSessions[1].messages) = 3
    /\ Len(messages) = 3



\* Whether a file name ends, letter case aside, in one of the extensions
\* the upload accepts.
EndsWith(name, suffix) ==
    /\ Len(name) >= Len(suffix)
    /\ SubSeq(ToLowerCase(name), Len(name) - Len(suffix) + 1, Len(name)) = suffix

HasAllowedExtension(name) == \E ext \in AllowedTypes : EndsWith(name, ext)

\* The files offered for upload, by whether the name carries an allowed
\* extension.
NamedAsAllowed == { file \in UploadFiles : HasAllowedExtension(file.name) }
NotNamedAsAllowed == UploadFiles \ NamedAsAllowed

\* A step that leaves the polling loops and the timeouts alone and settles
\* no request, as a call of handleFileUpload does.
NothingSettled ==
    /\ monitors' = monitors
    /\ graceTimers' = graceTimers
    /\ \A r \in BagToSet(adminReqs) : CopiesIn(r, adminReqs') >= CopiesIn(r, adminReqs)

\* C13, as stated: an upload of a file whose name does not end in .pdf,
\* .docx or .txt (letter case aside), a name without a dot included, is
\* rejected before any request is made, and the progress map is unchanged.
C13_UnsupportedNameRejected ==
    [][NothingSettled =>
       \A file \in NotNamedAsAllowed :
         HandleFileUpload(file) =>
           /\ uploadProgress' = uploadProgress
           /\ adminReqs' = adminReqs]_vars

\* C14, as stated: an upload of a file with an allowed extension and a size
\* of 200 MiB or more, the boundary included, is rejected before any request
\* is made, and the progress map is unchanged.
C14_AtLeast200MiBRejected ==
    [][NothingSettled =>
       \A file \in NamedAsAllowed :
         file.size >= 200 * 1024 * 1024 /\ HandleFileUpload(file) =>
           /\ uploadProgress' = uploadProgress
           /\ adminReqs' = adminReqs]_vars

\* C14, amended: an upload of a file with an allowed extension is rejected
\* with the size alert, before any request and with the progress map
\* unchanged, when its size is greater than 200 MiB; a file of exactly
\* 200 MiB is accepted: its entry is written and its upload request made.
C14_Over200MiBRejected ==
    [][NothingSettled =>
       \A file \in NamedAsAllowed :
         HandleFileUpload(file) =>
           IF file.size > 200 * 1024 * 1024
           THEN /\ notice' = SizeAlert
                /\ uploadProgress' = uploadProgress
                /\ adminReqs' = adminReqs
           ELSE /\ uploadProgress' =
                     Put(uploadProgress, file.name, Uploading(0))
                /\ adminReqs' = adminReqs (+) One(UploadReq(file))]_vars

\* An upload was rejected for its size: the alert is showing, no entry was
\* written and no upload request made.
C14_Witness ==
    /\ notice = SizeAlert
    /\ uploadProgress = NoEntries
    /\ \A r \in BagToSet(adminReqs) : r.kind # "upload"


\* C15, as stated: an upload whose processing reaches 'completed' causes
\* one refresh of the registry, however the status responses fall
\* relative to the ticks of the poll.
C15_OneRefreshPerUpload ==
    \A m \in DOMAIN monitors : monitors[m].refreshes <= 1

\* C16, as stated: a polling loop awaits at most one status request at any
\* time.
C16_OneStatusRequestPerUpload ==
    \A m \in DOMAIN monitors : StatusRequestsOf(m) <= 1

\* C17, as stated: an entry of the progress map that is in the 'error'
\* state stays in the map, in the 'error' state, at every later step.
C17_ErrorEntryStays ==
    [][\A name \in DOMAIN uploadProgress :
         uploadProgress[name].status = "error" =>
           /\ name \in DOMAIN uploadProgress'
           /\ uploadProgress'[name].status = "error"]_vars


\* C18: a status response that is neither 'completed' nor 'error' leaves
\* the timer of its polling loop as it was, so the loop polls on without a
\* limit; handling a 'completed' or 'error' response or a failed status
\* request clears the timer; a failed request leaves the entry in 'error';
\* and once the timer is cleared it stays cleared and no further status
\* request is issued for that loop.
C18_PollingStopsOnTerminalOrFailure ==
    [][/\ \A m \in DOMAIN monitors :
            ~monitors[m].timer =>
              /\ ~monitors'[m].timer
              /\ StatusRequestsOf(m)' <= StatusRequestsOf(m)
       /\ \A r \in BagToSet(adminReqs) :
            r.kind = "status" /\ CopiesIn(r, adminReqs') < CopiesIn(r, adminReqs) =>
              /\ \A status \in StatusResponses :
                   StatusResolved(r, status) =>
                     monitors'[r.monitor].timer =
                       (/\ monitors[r.monitor].timer
                        /\ ~("status" \in DOMAIN status
                               /\ status.status \in {"completed", "error"}))
              /\ StatusRejected(r) =>
                   /\ ~monitors'[r.monitor].timer
                   /\ r.live =>
                        uploadProgress'[monitors[r.monitor].filename].status = "error"]_vars

\* A status request failed while its loop was polling: the timer is
\* cleared, the entry shows the failure and no status request is awaited.
C18_Witness ==
    \E m \in DOMAIN monitors :
        /\ ~monitors[m].timer
        /\ monitors[m].filename \in DOMAIN uploadProgress
        /\ uploadProgress[monitors[m].filename] = ProcessingFailed
        /\ StatusRequestsOf(m) = 0


\* C19, as stated: every entry of the progress map has one of the statuses
\* 'uploading', 'completed' and 'error', whatever the status responses of
\* the backend carry.
C19_EntryStatusIsOneOfThree ==
    \A name \in DOMAIN uploadProgress :
        uploadProgress[name].status \in {"uploading", "completed", "error"}


----------------------------------------------------------------------------
(* The start of the application: App.jsx, checked under SpecBoot.          *)

\* C20, as stated: when the application starts with an identity and a
\* token stored, the session check ends with the user authenticated as the
\* stored identity and with a session list that is not empty, the backend's
\* sessions or one new greeting session, whose first session is active.
C20_RestoredSessionAuthenticates ==
    [][/\ isLoading /\ ~isLoading'
       /\ localStorage["user"] = Stringified(SomeUser)
       /\ localStorage["access_token"] = AccessToken
       => /\ user' = SomeUser
          /\ chatSessions' # <<>>
          /\ activeSessionId' = chatSessions'[1].sessionId]_vars

\* C21: when the session check restores a session, an identity and a token
\* being stored and not empty, and the restoration fails, because the
\* identity is not JSON or because the request for the session list fails,
\* as every such request does for want of a getChatSessions in the client,
\* then at the end of the session check neither the identity nor the token
\* is left in localStorage, the user is null, the loading screen is over so
\* that Login is shown, and the session list and the active session are
\* still empty.
C21_FailedRestorationFallsBackToLogin ==
    [][/\ isLoading /\ ~isLoading'
       /\ Truthy(localStorage["user"])
       /\ Truthy(localStorage["access_token"])
       /\ \/ ParseThrows(localStorage["user"])
          \/ "getChatSessions" \notin ApiMethods
       => /\ localStorage'["user"] = Null
          /\ localStorage'["access_token"] = Null
          /\ user' = Null
          /\ chatSessions' = <<>>
          /\ activeSessionId' = Null]_vars

\* A restoration has failed: Login is shown, localStorage holds neither
\* identity nor token, and apiService still holds the token it was
\* constructed with.
C21_Witness ==
    /\ ~isLoading
    /\ user = Null
    /\ localStorage["user"] = Null
    /\ localStorage["access_token"] = Null
    /\ token = AccessToken
    /\ chatSessions = <<>>
    /\ activeSessionId = Null

\* A step that ends a logout request.
LogoutEnds ==
    \E r \in BagToSet(authReqs) :
        r.kind = "logout" /\ CopiesIn(r, authReqs') < CopiesIn(r, authReqs)

\* C22: when a logout request ends, whether its fetch resolved or threw,
\* apiService holds no token, the token and the identity are removed from
\* localStorage, and the application state is reset by onLogout.
C22_LogoutAlwaysCleansUp ==
    [][LogoutEnds =>
         /\ token' = Null
         /\ localStorage'["access_token"] = Null
         /\ localStorage'["user"] = Null
         /\ user' = Null
         /\ activeDocument' = Null
         /\ chatSessions' = <<>>
         /\ activeSessionId' = Null
         /\ currentView' = "chat"]_vars

\* A logout has ended while the chat view awaited a history load: Login
\* is shown, neither identity nor token is stored, and the load's request
\* is orphaned.
C22_Witness ==
    /\ ~isLoading
    /\ user = Null
    /\ token = Null
    /\ localStorage["user"] = Null
    /\ localStorage["access_token"] = Null
    /\ authReqs = EmptyBag
    /\ \E r \in BagToSet(chatReqs) : ~r.live

\* C23: a login the backend accepts keeps the token in apiService, stores
\* the token and the identity, and authenticates the user; a login it
\* rejects, or one that fails in transport, leaves the token, localStorage
\* and the user as they were, the user null, and shows Login's error.
C23_LoginPersistsOnlyOnSuccess ==
    [][authReqs' # authReqs =>
       \A r \in BagToSet(authReqs), outcome \in LoginOutcomes :
         LoginSettled(r, outcome) =>
           IF outcome.kind = "accepted"
           THEN /\ token' = outcome.access_token
                /\ localStorage'["access_token"] = outcome.access_token
                /\ localStorage'["user"] = Stringified(outcome.user)
                /\ user' = outcome.user
                /\ ~isLoading'
           ELSE /\ token' = token
                /\ localStorage' = localStorage
                /\ user = Null /\ user' = Null
                /\ loginError' = InvalidCredentials]_vars

\* A login was accepted: the chat view is shown to the user whose identity
\* and token are stored, and apiService holds the token.
C23_Witness ==
    /\ ~isLoading
    /\ user = SomeUser
    /\ currentView = "chat"
    /\ token = AccessToken
    /\ localStorage = StorageAfterLogin
    /\ authReqs = EmptyBag

\* C24: a step that logs the user out, from the chat view or from the admin
\* view, leaves the user, the active document and the active session null,
\* the session list empty and the view 'chat'; a step that logs a user in
\* leaves the view 'chat'; the view becomes 'admin' by handleShowAdmin only;
\* and while no user is authenticated Login is what is shown: neither view
\* has state or a request whose response it would still handle.
C24_LogoutResetsAndViewsFollowUser ==
    [][/\ (user # Null /\ user' = Null) =>
            /\ activeDocument' = Null
            /\ chatSessions' = <<>>
            /\ activeSessionId' = Null
            /\ currentView' = "chat"
       /\ (user = Null /\ user' # Null) => currentView' = "chat"
       /\ (currentView # "admin" /\ currentView' = "admin") =>
            user # Null /\ user' = user /\ HandleShowAdmin
       /\ user' = Null =>
            /\ messages' = <<>> /\ uploadedFiles' = <<>>
            /\ uploadProgress' = NoEntries
            /\ \A r \in BagToSet(chatReqs') : ~r.live
            /\ \A r \in BagToSet(adminReqs') : ~r.live]_vars

\* A user who had opened the admin view has logged out: Login is shown,
\* the view is back to 'chat', and the refreshes of the admin view are
\* orphaned.
C24_Witness ==
    /\ ~isLoading
    /\ user = Null
    /\ currentView = "chat"
    /\ activeDocument = Null
    /\ chatSessions = <<>>
    /\ activeSessionId = Null
    /\ \E r \in BagToSet(adminReqs) : ~r.live

----------------------------------------------------------------------------
(* handleSetActive, checked under SpecSetActive.                           *)

\* C27: handleSetActive on a row that is missing or has an empty task_id
\* makes no request and changes neither the registry nor the published
\* document; when its request fails, the registry and the published
\* document are unchanged; when it succeeds, the registry is the list the
\* click saw with isActive set on the target and on no other entry, and the
\* target is published.
C27_SetActiveOutcomes ==
    [][/\ \A i \in 1..(MaxDocs + 1) :
            /\ i > Len(uploadedFiles) \/ uploadedFiles[i].task_id = ""
            /\ HandleSetActive(i)
            => /\ adminReqs' = adminReqs
               /\ uploadedFiles' = uploadedFiles
               /\ activeDocument' = activeDocument
               /\ notice' = NoIdAlert
       /\ adminReqs' # adminReqs =>
            \A r \in BagToSet(adminReqs) :
              r.kind = "setActive" =>
                /\ SetActiveRejected(r) =>
                     /\ uploadedFiles' = uploadedFiles
                     /\ activeDocument' = activeDocument
                /\ SetActiveResolved(r) =>
                     /\ Len(uploadedFiles') = Len(r.files)
                     /\ \A i \in 1..Len(r.files) :
                          /\ uploadedFiles'[i].isActive = (i = r.idx)
                          /\ uploadedFiles'[i].task_id = r.files[i].task_id
                     /\ activeDocument' = r.files[r.idx]]_vars

\* A setActive succeeded on a document that is still processing, which a
\* refresh never marks: it is the only active entry and the one published.
C27_Witness ==
    /\ Len(uploadedFiles) = 2
    /\ uploadedFiles[2].processing_status = "processing"
    /\ uploadedFiles[2].isActive
    /\ ~uploadedFiles[1].isActive
    /\ Truthy(activeDocument)
    /\ activeDocument.task_id = uploadedFiles[2].task_id

----------------------------------------------------------------------------
(* Uploads, continued: checked under SpecUpload.                           *)

\* An answer with status 200 whose body names a task: a JSON object with a
\* task_id that is not empty.
NamesTask(xhr) ==
    /\ xhr.event = "load" /\ xhr.status = 200
    /\ "json" \in DOMAIN xhr.responseText
    /\ xhr.responseText.json # Null
    /\ "task_id" \in DOMAIN xhr.responseText.json
    /\ xhr.responseText.json.task_id # ""

\* Every other way an upload request ends: a transport error, a status
\* other than 200, a body that is not JSON, and a success response that
\* lacks a task identifier, be it absent, empty, or the body `null`.
FailedXhrOutcomes == { xhr \in XhrOutcomes : ~NamesTask(xhr) }

\* C28: when an upload request ends with a transport error, a status other
\* than 200, a body that is not JSON or a success response that lacks a
\* task identifier, the file's progress entry becomes an 'error' entry, no
\* polling loop is started and no refresh of the registry is requested.
C28_FailedUploadEndsInError ==
    [][adminReqs' # adminReqs =>
       \A r \in BagToSet(adminReqs), xhr \in FailedXhrOutcomes :
         r.kind = "upload" /\ UploadSettled(r, xhr) =>
           /\ r.file.name \in DOMAIN uploadProgress'
           /\ uploadProgress'[r.file.name].status = "error"
           /\ monitors' = monitors
           /\ adminReqs' = adminReqs (-) One(r)
           /\ uploadedFiles' = uploadedFiles]_vars

\* An upload was answered with status 200 and no task_id that counts: its
\* entry shows the error, no polling loop exists and nothing is in flight.
C28_Witness ==
    /\ monitors = <<>>
    /\ adminReqs = EmptyBag
    /\ \E name \in DOMAIN uploadProgress :
         uploadProgress[name] = UploadFailed("Upload response missing task_id")

----------------------------------------------------------------------------
(* The session list, checked under SpecBoot.                               *)

\* C29, as stated: no two sessions of the list have the same sessionId,
\* also when two calls of handleNewChat read the same millisecond.
C29_SessionIdsUnique ==
    \A i, j \in 1..Len(chatSessions) :
        i # j => chatSessions[i].sessionId # chatSessions[j].sessionId

\* C30, as stated: whenever no user is authenticated, the published active
\* document is null.
C30_NoDocumentWithoutUser ==
    user = Null => activeDocument = Null

\* C25: when the demo ingestion reaches 'done', every demo document having
\* reported 'completed', demoIngested is true and localStorage holds
\* demoFilesIngested = 'true', so that a later mount does not start again.
C25_DoneIsMarkedAndPersisted ==
    [][demoIngestState # "done" /\ demoIngestState' = "done"
       => /\ demoIngested'
          /\ localStorage'["demoFilesIngested"] = TrueText]_vars

\* C26: while demo mode is off and the demo ingest status is null, as the
\* disable left it, a step that ends a status request of pollStatuses
\* leaves the status null.
C26_StalePollKeepsStatusNull ==
    [][/\ ~isDemoMode
       /\ demoIngestState = NoStatus
       /\ \E r \in BagToSet(adminReqs) :
              /\ r.kind = "demoStatus"
              /\ CopiesIn(r, adminReqs') < CopiesIn(r, adminReqs)
       => demoIngestState' = NoStatus]_vars

\* C31: whenever no login or logout request is in flight and the session
\* check is over, apiService holds a token exactly when localStorage holds
\* an access token.
C31_TokenMatchesStorage ==
    (~isLoading /\ authReqs = EmptyBag)
        => (token # Null <=> localStorage["access_token"] # Null)

\* C32: when a query of the mounted chat interface ends, resolved or
\* thrown, and the active session is no longer the session the question was
\* asked in, the displayed messages stay as they are.
C32_ReplyStaysInItsSession ==
    [][\A r \in BagToSet(chatReqs) :
          /\ r.kind = "query"
          /\ r.live
          /\ r.sessionId # Null
          /\ r.sessionId # activeSessionId
          /\ CopiesIn(r, chatReqs') < CopiesIn(r, chatReqs)
          => messages' = messages]_vars

\* C33: when a history load for the active session ends while a query sent
\* in that session is awaited, the user message of that query, displayed
\* before the step, is displayed after it.
C33_HistoryLoadKeepsSentMessage ==
    [][\A h \in BagToSet(chatReqs), q \in BagToSet(chatReqs) :
          /\ h.kind = "history" /\ h.live
          /\ h.sessionId = activeSessionId
          /\ q.kind = "query" /\ q.live
          /\ q.sessionId = activeSessionId
          /\ \E i \in 1..Len(messages) : messages[i] = UserMessage(q.text)
          /\ CopiesIn(h, chatReqs') < CopiesIn(h, chatReqs)
          /\ activeSessionId' = activeSessionId
          => \E i \in 1..Len(messages') : messages'[i] = UserMessage(q.text)]_vars

\* C34: when a history load of the mounted chat interface ends for a
\* session that is not the active one, the displayed messages stay as they
\* are and the session, if it is not in the session list, is not put there.
C34_LateHistoryIsDropped ==
    [][\A h \in BagToSet(chatReqs) :
          /\ h.kind = "history" /\ h.live
          /\ h.sessionId # activeSessionId
          /\ CopiesIn(h, chatReqs') < CopiesIn(h, chatReqs)
          => /\ messages' = messages
             /\ FindIndex(chatSessions, h.sessionId) = 0
                  => FindIndex(chatSessions', h.sessionId) = 0]_vars

\* C35: a step that issues a query request issues it for a session that
\* is in the session list, so never while the active session is null.
C35_QueryCarriesListedSession ==
    [][\A r \in BagToSet(chatReqs') :
          /\ r.kind = "query"
          /\ CopiesIn(r, chatReqs') > CopiesIn(r, chatReqs)
          => FindIndex(chatSessions, r.sessionId) # 0]_vars

\* C36: when a request of a demo ingestion that is showing 'processing'
\* fails, an ingest trigger or a status poll, the demo ingest status
\* becomes 'error'.
C36_FailedDemoRequestShowsError ==
    [][\A r \in BagToSet(adminReqs) :
          /\ isDemoMode
          /\ demoIngestState = "processing"
          /\ r.kind \in {"demoTrigger", "demoStatus"}
          /\ r.live
          /\ \/ DemoTriggerRejected(r)
             \/ \E error \in GetStatusErrors : DemoStatusRejected(r, error)
          => demoIngestState' = "error"]_vars

====
